---------------------------- MODULE Spec2Model ----------------------------
(***************************************************************************)
(* Model of dfvfs/helpers/volume_scanner.py: the volume scanner that turns *)
(* a source path into the list of base path specifications, its mediator   *)
(* and the normalization of volume identifiers.                            *)
(*                                                                         *)
(* Python str values are sequences of one-character strings, so that       *)
(* startswith(), int() and format() are computed and not assumed.          *)
(***************************************************************************)
EXTENDS Integers, Sequences, FiniteSets, TLC

\* ------------------------------------------------------------------ bounds
\* Largest number of volumes a volume system (partitions, APFS volumes, VSS
\* stores) of a scanned source holds.
MaxVolumes == 3
\* Longest identifier list handed to _NormalizedVolumeIdentifiers on its own.
MaxIdentifiers == 2
\* Largest volume index used in identifiers handed to normalization on its own.
MaxIndex == 2
\* Most calls made on one scanner object, one after the other.
MaxCalls == 2

\* ------------------------------------------------------------ str helpers
Digits == <<"0", "1", "2", "3", "4", "5", "6", "7", "8", "9">>

IsDigit(c) == \E i \in 1..10 : Digits[i] = c

DigitValue(c) == (CHOOSE i \in 1..10 : Digits[i] = c) - 1

\* str.startswith(prefix)
StartsWith(s, prefix) ==
  /\ Len(s) >= Len(prefix)
  /\ SubSeq(s, 1, Len(prefix)) = prefix

\* '{0:d}'.format(n) for n >= 0
RECURSIVE FormatNat(_)
FormatNat(n) ==
  IF n < 10 THEN <<Digits[n + 1]>>
  ELSE Append(FormatNat(n \div 10), Digits[(n % 10) + 1])

\* '{0:d}'.format(n)
FormatInt(n) == IF n < 0 THEN <<"-">> \o FormatNat(0 - n) ELSE FormatNat(n)

RECURSIVE StripLeft(_)
StripLeft(s) ==
  IF s # <<>> /\ Head(s) = " " THEN StripLeft(Tail(s)) ELSE s

RECURSIVE StripRight(_)
StripRight(s) ==
  IF s # <<>> /\ s[Len(s)] = " " THEN StripRight(SubSeq(s, 1, Len(s) - 1))
  ELSE s

RECURSIVE DigitsValue(_)
DigitsValue(s) ==
  IF s = <<>> THEN 0
  ELSE 10 * DigitsValue(SubSeq(s, 1, Len(s) - 1)) + DigitValue(s[Len(s)])

\* int(s, 10): surrounding blanks and one sign are accepted, then one or more
\* decimal digits; anything else raises ValueError (ok = FALSE).
ParseInt(s) ==
  LET t == StripRight(StripLeft(s))
      signed == t # <<>> /\ Head(t) \in {"+", "-"}
      d == IF signed THEN Tail(t) ELSE t
      ok == d # <<>> /\ \A i \in 1..Len(d) : IsDigit(d[i])
  IN  [ok |-> ok,
       value |-> IF ~ok THEN 0
                 ELSE IF signed /\ Head(t) = "-" THEN 0 - DigitsValue(d)
                 ELSE DigitsValue(d)]

\* A Python value that is an int or a str (list[int|str] elements).
IntValue(n) == [type |-> "int", int |-> n, str |-> <<>>]
StrValue(s) == [type |-> "str", int |-> 0, str |-> s]

Reverse(s) == [i \in 1..Len(s) |-> s[Len(s) + 1 - i]]

\* ------------------------------------------------- results and exceptions
\* How a call ends: kind "return" with a value, or the kind of the exception
\* raised with its message and the value formatted into it.
Returned(v) == [kind |-> "return", message |-> "", arg |-> <<>>, value |-> v]

Raised(kind, message, arg) ==
  [kind |-> kind, message |-> message, arg |-> arg, value |-> <<>>]

\* A list argument, or None in its place.
PyList(items) == [type |-> "list", items |-> items]
PyNone == [type |-> "None", items |-> <<>>]

\* ---------------------------------------------------------- normalization
\* volume_system.GetVolumeByIdentifier(identifier): `volumes` is the set of
\* identifiers the volume system holds a volume for; any other identifier
\* gives None or KeyError, which the caller treats alike.
GetVolumeByIdentifier(volumes, volume_identifier) ==
  volume_identifier \in volumes

\* This variant prefixes every str, without the startswith test and int().
NormalizeIdentifierNoPrefixTest(volume_identifier, prefix) ==
  IF volume_identifier.type = "int"
  THEN prefix \o FormatInt(volume_identifier.int)
  ELSE prefix \o volume_identifier.str

\* This variant formats an int without the prefix.
NormalizeIdentifierNoPrefix(volume_identifier, prefix) ==
  IF volume_identifier.type = "int"
  THEN FormatInt(volume_identifier.int)
  ELSE IF ~StartsWith(volume_identifier.str, prefix)
            /\ ParseInt(volume_identifier.str).ok
       THEN FormatInt(ParseInt(volume_identifier.str).value)
       ELSE volume_identifier.str

\* The rewrite of one identifier: an int, and a str that does not start with the
\* prefix and that int(.., 10) accepts, become prefix + decimal; any other str
\* is kept.
NormalizeIdentifier(volume_identifier, prefix) ==
  IF volume_identifier.type = "int"
  THEN prefix \o FormatInt(volume_identifier.int)
  ELSE IF ~StartsWith(volume_identifier.str, prefix)
            /\ ParseInt(volume_identifier.str).ok
       THEN prefix \o FormatInt(ParseInt(volume_identifier.str).value)
       ELSE volume_identifier.str

\* The loop of _NormalizedVolumeIdentifiers from element i on, `done` being the
\* identifiers appended so far.
RECURSIVE NormalizeFrom(_, _, _, _, _)
NormalizeFrom(volumes, items, prefix, i, done) ==
  IF i > Len(items) THEN Returned(done)
  ELSE LET volume_identifier == NormalizeIdentifier(items[i], prefix)
       IN  IF ~GetVolumeByIdentifier(volumes, volume_identifier)
           THEN Raised("ScannerError", "Volume missing for identifier",
                       volume_identifier)
           ELSE NormalizeFrom(volumes, items, prefix, i + 1,
                              Append(done, volume_identifier))

\* _NormalizedVolumeIdentifiers(volume_system, volume_identifiers, prefix);
\* iterating over None raises TypeError.
NormalizedVolumeIdentifiers(volumes, volume_identifiers, prefix) ==
  IF volume_identifiers.type = "None"
  THEN Raised("TypeError", "object is not iterable", <<>>)
  ELSE NormalizeFrom(volumes, volume_identifiers.items, prefix, 1, <<>>)

\* A list[str] as the list[int|str] argument of a call.
AsList(strs) == PyList([i \in 1..Len(strs) |-> StrValue(strs[i])])

\* ------------------------------------------------- path specs, scan nodes
\* A path specification is the chain of its layers from the source outwards,
\* each layer a type indicator and a location (<<>>: the layer has none); two
\* path specifications are equal when the whole chains are.
Layer(type_indicator, location) ==
  [type_indicator |-> type_indicator, location |-> location]

TypeIndicator(path_spec) == path_spec[Len(path_spec)].type_indicator

Location(path_spec) == path_spec[Len(path_spec)].location

\* definitions.VOLUME_SYSTEM_TYPE_INDICATORS and FILE_SYSTEM_TYPE_INDICATORS,
\* as far as the scanned sources use them.
VOLUME_SYSTEM_TYPE_INDICATORS == {"APFS_CONTAINER", "LVM", "TSK_PARTITION", "VSHADOW"}
FILE_SYSTEM_TYPE_INDICATORS == {"APFS", "NTFS", "TSK"}

\* SourceScanNode.IsVolumeSystemRoot(): a volume system at location "/".
IsVolumeSystemRoot(path_spec) ==
  /\ TypeIndicator(path_spec) \in VOLUME_SYSTEM_TYPE_INDICATORS
  /\ Location(path_spec) = <<"/">>

\* SourceScanNode.IsFileSystem()
IsFileSystem(path_spec) ==
  TypeIndicator(path_spec) \in FILE_SYSTEM_TYPE_INDICATORS

\* CredentialsManager.GetCredentials(path_spec): the type indicators that
\* have credentials registered.
HasCredentials(path_spec) ==
  TypeIndicator(path_spec) \in {"APFS_CONTAINER", "BDE", "FVDE"}

\* What a Scan finds, as a tree: sub_nodes in discovery order, volumes the
\* identifiers the node's volume system enumerates, locked whether the scan
\* could not look into the node without credentials.
Node(type_indicator, location, sub_nodes, volumes, locked) ==
  [type_indicator |-> type_indicator, location |-> location,
   sub_nodes |-> sub_nodes, volumes |-> volumes, locked |-> locked]

RECURSIVE TreeRows(_, _)
TreeRows(tree, parent) ==
  LET path_spec == Append(parent, Layer(tree.type_indicator, tree.location))
      kids == tree.sub_nodes
  IN  {[path_spec |-> path_spec,
        sub_nodes |-> [i \in 1..Len(kids) |->
                         Append(path_spec,
                                Layer(kids[i].type_indicator, kids[i].location))],
        volumes |-> tree.volumes,
        locked |-> tree.locked]}
      \cup UNION {TreeRows(kids[i], path_spec) : i \in 1..Len(kids)}

RowOf(rows, path_spec) == CHOOSE r \in rows : r.path_spec = path_spec

\* The scan nodes of a set of rows: path spec -> sub nodes in discovery order.
NodesOf(rows) ==
  [path_spec \in {r.path_spec : r \in rows} |-> RowOf(rows, path_spec).sub_nodes]

VolumesOf(rows) ==
  [path_spec \in {r.path_spec : r \in rows} |-> RowOf(rows, path_spec).volumes]

LockedOf(rows) == {r.path_spec : r \in {x \in rows : x.locked}}

\* Volume identifiers as the volume systems enumerate them.
PartitionIdentifier(i) == <<"p">> \o FormatInt(i)
VSSStoreIdentifier(i) == <<"v", "s", "s">> \o FormatInt(i)
APFSVolumeIdentifier(i) == <<"a", "p", "f", "s">> \o FormatInt(i)

\* ---------------------------------------------------------------- sources
FileSystemNode == Node("NTFS", <<"/">>, <<>>, <<>>, FALSE)

LockedVolumeNode(type_indicator) == Node(type_indicator, <<>>, <<>>, <<>>, TRUE)

VSSRootNode(n) ==
  Node("VSHADOW", <<"/">>,
       [i \in 1..n |-> Node("VSHADOW", <<"/">> \o VSSStoreIdentifier(i),
                            <<>>, <<>>, FALSE)],
       [i \in 1..n |-> VSSStoreIdentifier(i)], FALSE)

\* A VSS volume system that enumerates a store the scan found no node for.
VSSRootNodeMissingStore ==
  [VSSRootNode(1) EXCEPT !.volumes = <<VSSStoreIdentifier(1), VSSStoreIdentifier(2)>>]

\* An APFS container of n volumes; with `locked` the last one is encrypted.
APFSContainerNode(n, locked) ==
  Node("APFS_CONTAINER", <<"/">>,
       [i \in 1..n |->
          IF locked /\ i = n
          THEN Node("APFS_CONTAINER", <<"/">> \o APFSVolumeIdentifier(i),
                    <<>>, <<>>, TRUE)
          ELSE Node("APFS_CONTAINER", <<"/">> \o APFSVolumeIdentifier(i),
                    <<Node("APFS", <<"/">>, <<>>, <<>>, FALSE)>>, <<>>, FALSE)],
       [i \in 1..n |-> APFSVolumeIdentifier(i)], FALSE)

\* A partition table: contents[i] is what partition i holds; the volume system
\* enumerates `extra` more partitions than the scan found nodes for. The
\* volume system opened on the path spec of a partition is that of its table
\* and enumerates the same partitions.
PartitionTableNode(contents, extra) ==
  Node("TSK_PARTITION", <<"/">>,
       [i \in 1..Len(contents) |->
          Node("TSK_PARTITION", <<"/">> \o PartitionIdentifier(i),
               contents[i],
               [j \in 1..(Len(contents) + extra) |-> PartitionIdentifier(j)],
               FALSE)],
       [i \in 1..(Len(contents) + extra) |-> PartitionIdentifier(i)], FALSE)

\* What a partition of a partition table holds.
PartitionContents ==
  {<<FileSystemNode>>, <<LockedVolumeNode("BDE")>>,
   <<VSSRootNode(1), FileSystemNode>>, <<APFSContainerNode(1, FALSE)>>}

\* What a volume without partition table holds.
VolumeContents ==
  {<<>>, <<FileSystemNode>>, <<LockedVolumeNode("BDE")>>,
   <<LockedVolumeNode("LUKSDE")>>, <<Node("LVM", <<"/">>, <<>>, <<>>, FALSE)>>,
   <<FileSystemNode, LockedVolumeNode("BDE"),
     Node("TSK", <<"/">>, <<>>, <<>>, FALSE)>>}
  \cup {<<VSSRootNode(n), FileSystemNode>> : n \in 0..MaxVolumes}
  \cup {<<APFSContainerNode(n, locked)>> :
          n \in 0..MaxVolumes, locked \in BOOLEAN}
  \cup {<<APFSContainerNode(1, FALSE), FileSystemNode>>,
        <<FileSystemNode, VSSRootNodeMissingStore>>}
  \cup {<<PartitionTableNode(<<<<FileSystemNode>>, <<PartitionTableNode(
            <<<<FileSystemNode>>, <<FileSystemNode>>>>, 0)>>>>, 0)>>}

\* Partition tables of up to MaxVolumes partitions: file systems, but for one
\* partition that holds any of the contents.
PartitionLayouts ==
  UNION {{[i \in 1..n |-> IF i = k THEN contents ELSE <<FileSystemNode>>] :
            k \in 1..n, contents \in PartitionContents} : n \in 1..MaxVolumes}

PartitionTables ==
  {<<PartitionTableNode(contents, 0)>> : contents \in PartitionLayouts}
  \cup {<<PartitionTableNode(<<<<FileSystemNode>>>>, 1)>>,
        <<PartitionTableNode(<<>>, 0)>>}

\* What a re-scan finds beneath a node that has been unlocked.
UnlockedContents == {<<>>, <<FileSystemNode>>, <<VSSRootNode(1), FileSystemNode>>}

\* Source paths: '', a path that does not exist, an image file, a directory,
\* and a Windows device path '\\.\C:'.
EmptyPath == <<>>
MissingPath == <<"/", "n", "o">>
ImagePath == <<"/", "i", "m", "g">>
DirectoryPath == <<"/", "d", "i", "r">>
DevicePath == <<"\\", "\\", ".", "\\", "C", ":">>

SourcePaths == {EmptyPath, MissingPath, ImagePath, DirectoryPath, DevicePath}

\* os.path.exists(source_path); it does not support Windows device paths.
PathExists(source_path) == source_path \in {ImagePath, DirectoryPath}

\* What the scan finds beneath a source it classifies as a file: nothing, or
\* the layers of a compressed stream, with what they hold.
FileContents ==
  {<<>>, <<Node("GZIP", <<>>, <<>>, <<>>, FALSE)>>,
   <<Node("GZIP", <<>>, <<FileSystemNode>>, <<>>, FALSE)>>}

\* The scan tree of a storage media source: the OS layer, a RAW layer, and
\* beneath it the volume's contents.
StorageMediaTree(source_path, contents) ==
  Node("OS", source_path, <<Node("RAW", <<>>, contents, <<>>, FALSE)>>, <<>>, FALSE)

\* What OpenSourcePath and the first Scan make of a source path: the
\* exception of the scan, or the source type with the scan tree; `media` is
\* what the volume of a storage media source may hold.
ScanResultsOf(source_path, media) ==
  {[error |-> e, source_type |-> "none", tree |-> Node("OS", source_path, <<>>, <<>>, FALSE)] :
     e \in {"BackEndError", "ValueError"}}
  \cup
  (IF source_path = DirectoryPath
   THEN {[error |-> "none", source_type |-> "directory",
          tree |-> Node("OS", source_path, <<>>, <<>>, FALSE)]}
   ELSE {[error |-> "none", source_type |-> "file",
          tree |-> Node("OS", source_path, contents, <<>>, FALSE)] :
            contents \in FileContents}
        \cup
        {[error |-> "none",
          source_type |-> IF source_path = DevicePath
                          THEN "storage media device"
                          ELSE "storage media image",
          tree |-> StorageMediaTree(source_path, contents)] :
            contents \in media})

ScanResults(source_path) ==
  ScanResultsOf(source_path, VolumeContents \cup PartitionTables)

\* ------------------------------------------------------------------ state
VARIABLES
  mediator,         \* self._mediator: TRUE when a mediator is configured
  request,          \* the source_path argument of the call
  source_path,      \* self._source_path (<<>>: None)
  source_type,      \* self._source_type ("none": None)
  scan_context,     \* the SourceScannerContext of the running call
  backend,          \* path spec -> identifiers its volume system enumerates
  pc,               \* where GetBasePathSpecs stands
  scan_node,        \* the node GetBasePathSpecs descended to
  stack,            \* the pending _ScanVolume calls, innermost first
  base_path_specs,  \* the list the walk appends to
  pending,          \* the mediator call the scanner waits in
  outcome,          \* how GetBasePathSpecs ended
  scans,            \* every Scan run by the call, in order
  volume_systems,   \* every volume system opened by the call, in order
  mediator_calls,   \* every mediator operation invoked, in order
  norm,             \* _NormalizedVolumeIdentifiers applied on its own
  scanner,          \* the class of the scanner object
  windows_directories, \* _WINDOWS_DIRECTORIES in the order the set iterates
  file_systems,     \* file system path spec -> known directories it holds
  file_system,      \* self._file_system (<<>>: None)
  path_resolver,    \* self._path_resolver
  windows_directory, \* self._windows_directory ("": None)
  probes,           \* every file system probed by the call, in order
  calls,            \* the calls made on the scanner so far
  windows_volume,   \* how ScanForWindowsVolume ended
  opened_file       \* how the last OpenFile ended

vars ==
  <<mediator, request, source_path, source_type, scan_context, backend, pc, scan_node,
    stack, base_path_specs, pending, outcome, scans, volume_systems,
    mediator_calls, norm, scanner, windows_directories, file_systems,
    file_system, path_resolver, windows_directory, probes, calls,
    windows_volume, opened_file>>

\* What the steps of GetBasePathSpecs leave alone.
session ==
  <<scanner, windows_directories, file_system, path_resolver, calls,
    windows_volume, opened_file>>

NoOutcome == Raised("none", "", <<>>)

NoPending == [op |-> "none", node |-> <<>>, candidates |-> <<>>]

NoContext ==
  [opened |-> FALSE, source_type |-> "none", root |-> <<>>,
   nodes |-> <<>>, locked |-> {}]

\* How ScanForWindowsVolume or OpenFile ended: kind "return" with the value
\* written as Python writes it, or the kind of the exception raised.
Result(kind, value) == [kind |-> kind, value |-> value]

NoResult == Result("none", "")

\* self._path_resolver is None
NoPathResolver ==
  [file_system |-> <<>>, mount_point |-> <<>>, SystemRoot |-> "", WinDir |-> ""]

NoNorm ==
  [pc |-> "unused", volumes |-> {}, prefix |-> <<>>, input |-> PyNone,
   result |-> NoOutcome, again |-> NoOutcome]

\* ------------------------------------------------- Windows volume scanner
\* WindowsVolumeScanner._WINDOWS_DIRECTORIES, a frozenset.
WINDOWS_DIRECTORIES == {"C:\\Windows", "C:\\WINNT", "C:\\WTSRV", "C:\\WINNT35"}

\* The orders a frozenset of str iterates in follow the hashes of the
\* strings, which differ from one process to the next. The order matters to
\* the scanner only through which of the known directories of one file system
\* comes first: the order the source lists them in and its reverse give each
\* pair of directories in both orders.
IterationOrders ==
  {<<"C:\\Windows", "C:\\WINNT", "C:\\WTSRV", "C:\\WINNT35">>,
   <<"C:\\WINNT35", "C:\\WTSRV", "C:\\WINNT", "C:\\Windows">>}

\* The known directories a file system of a scanned source may hold.
DirectorySets ==
  {{}, {"C:\\Windows"}, {"C:\\WINNT"}, {"C:\\WINNT", "C:\\WTSRV"},
   {"C:\\WINNT", "C:\\WINNT35"}}

\* The path specs of a scan tree a file system can be opened on: the file
\* system nodes, the file system of each VSS store, and the root of a
\* directory.
FileSystemsOf(rows, type) ==
  {r.path_spec : r \in {x \in rows : IsFileSystem(x.path_spec)}}
  \cup {Append(r.path_spec, Layer("TSK", <<"/">>)) :
          r \in {x \in rows : /\ TypeIndicator(x.path_spec) = "VSHADOW"
                               /\ ~IsVolumeSystemRoot(x.path_spec)}}
  \cup {r.path_spec : r \in {x \in rows : /\ Len(x.path_spec) = 1
                                          /\ type = "directory"}}

\* The known directories the file systems hold, for the scanner that looks.
DirectoryAssignments(path_specs) ==
  IF scanner = "WindowsVolumeScanner" THEN [path_specs -> DirectorySets]
  ELSE {<<>>}

\* path_resolver.ResolvePath(windows_path) is not None, for a resolver of the
\* file system at path_spec.
ResolvePath(path_spec, windows_path) ==
  path_spec \in DOMAIN file_systems /\ windows_path \in file_systems[path_spec]

\* _ScanFileSystemForWindowsDirectory: the first known directory, in the
\* order the set iterates, that resolves; "" when none does (result False).
ScanFileSystemForWindowsDirectory(path_spec) ==
  LET found == {i \in DOMAIN windows_directories :
                  ResolvePath(path_spec, windows_directories[i])}
  IN  IF found = {} THEN ""
      ELSE windows_directories[CHOOSE i \in found : \A j \in found : i <= j]

\* scan_context.IsLockedScanNode(path_spec)
IsLockedScanNode(context, path_spec) == path_spec \in context.locked

\* scan_node.GetSubNodeByLocation(location): the first sub node at the
\* location, <<>> (None) when there is none.
GetSubNodeByLocation(context, path_spec, location) ==
  LET sub_nodes == context.nodes[path_spec]
      found == {i \in 1..Len(sub_nodes) : Location(sub_nodes[i]) = location}
  IN  IF found = {} THEN <<>>
      ELSE sub_nodes[CHOOSE i \in found : \A j \in found : i <= j]

\* This variant stays at the root scan node.
DescendNever(nodes, path_spec) == path_spec

\* The while loop of GetBasePathSpecs: down the chain of single sub nodes.
RECURSIVE Descend(_, _)
Descend(nodes, path_spec) ==
  IF Len(nodes[path_spec]) = 1 THEN Descend(nodes, nodes[path_spec][1])
  ELSE path_spec

\* One pending call: _ScanVolume of a node ("volume"), or the body of a loop
\* over selected identifiers, which first looks the sub node up ("partition":
\* the loop of GetBasePathSpecs, "sub_node": that of _ScanVolumeSystemRoot).
VolumeCall(path_spec) == [op |-> "volume", node |-> path_spec, identifier |-> <<>>]

IdentifierCalls(op, path_spec, identifiers) ==
  [i \in 1..Len(identifiers) |->
     [op |-> op, node |-> path_spec, identifier |-> identifiers[i]]]

\* The prefix each kind of volume system is normalized with.
PrefixOf(op) ==
  CASE op = "GetAPFSVolumeIdentifiers" -> <<"a", "p", "f", "s">>
    [] op = "GetPartitionIdentifiers" -> <<"p">>
    [] op = "GetVSSStoreIdentifiers" -> <<"v", "s", "s">>

Range(s) == {s[i] : i \in 1..Len(s)}

\* ----------------------------------------------------- steps of the walk
\* What a step makes of the call: the next position, the pending calls, the
\* list, the outcome, the mediator call waited in, and the volume systems
\* it opened.
Step(pc_, stack_, base_, outcome_, pending_, opened_) ==
  [pc |-> pc_, stack |-> stack_, base_path_specs |-> base_,
   outcome |-> outcome_, pending |-> pending_, opened |-> opened_,
   probed |-> <<>>]

Go(stack_, base_, opened_) ==
  Step("walk", stack_, base_, NoOutcome, NoPending, opened_)

Fail(exception, opened_) ==
  Step("done", stack, base_path_specs, exception, NoPending, opened_)

Ask(op, path_spec, candidates, stack_, opened_) ==
  Step(IF op = "UnlockEncryptedVolume" THEN "unlock" ELSE "select",
       stack_, base_path_specs, NoOutcome,
       [op |-> op, node |-> path_spec, candidates |-> candidates], opened_)

Opened(type, path_spec, volume_identifiers) ==
  <<[type |-> type, node |-> path_spec, volume_identifiers |-> volume_identifiers]>>

\* The order the selected identifiers are processed in: VSS stores are
\* reversed, to start with the most recent one.
ProcessingOrder(op, volume_identifiers) ==
  IF op = "GetVSSStoreIdentifiers" THEN Reverse(volume_identifiers)
  ELSE volume_identifiers

\* The identifiers the loop runs over for a selection (<<>> when the
\* normalization raises).
ProcessedIdentifiers(op, candidates, volume_identifiers) ==
  LET normalized == NormalizedVolumeIdentifiers(
                      Range(candidates), volume_identifiers, PrefixOf(op))
  IN  IF normalized.kind # "return" THEN <<>>
      ELSE ProcessingOrder(op, normalized.value)

\* A selection is normalized against the volume system that enumerated the
\* candidates, ordered, and looped over.
SelectedIdentifiers(op, path_spec, candidates, volume_identifiers, rest, opened_) ==
  LET normalized == NormalizedVolumeIdentifiers(
                      Range(candidates), volume_identifiers, PrefixOf(op))
  IN  IF normalized.kind # "return" THEN Fail(normalized, opened_)
      ELSE Go(IdentifierCalls(
                IF op = "GetPartitionIdentifiers" THEN "partition" ELSE "sub_node",
                path_spec, ProcessingOrder(op, normalized.value)) \o rest,
              base_path_specs, opened_)

\* This variant puts a single partition to the mediator too.
PartitionsConsultMediatorAlways(volume_identifiers) == TRUE

\* Whether the partitions found are put to the mediator: not a single one.
PartitionsConsultMediator(volume_identifiers) == Len(volume_identifiers) # 1

\* This variant puts a single APFS volume to the mediator too.
APFSConsultsMediatorAlways(volume_identifiers) == TRUE

\* Whether the APFS volumes found are put to the mediator: only several.
APFSConsultsMediator(volume_identifiers) == Len(volume_identifiers) > 1

\* Whether the VSS stores found are put to the mediator: always.
VSSConsultsMediator(volume_identifiers) == TRUE

\* _GetTSKPartitionIdentifiers up to its mediator call, with the loop of
\* GetBasePathSpecs over what it returns. A single partition is returned as
\* enumerated, without normalization.
GetTSKPartitionIdentifiers(volumes, path_spec) ==
  LET volume_identifiers == volumes[path_spec]
      opened_ == Opened("TSK_PARTITION", path_spec, volume_identifiers)
  IN  IF volume_identifiers = <<>> THEN Go(<<>>, <<>>, opened_)
      ELSE IF ~PartitionsConsultMediator(volume_identifiers)
      THEN Go(IdentifierCalls("partition", path_spec, volume_identifiers),
              <<>>, opened_)
      ELSE IF ~mediator
      THEN Fail(Raised("ScannerError", "Partitions found but no mediator", <<>>),
                opened_)
      ELSE Ask("GetPartitionIdentifiers", path_spec, volume_identifiers,
               <<>>, opened_)

\* _GetAPFSVolumeIdentifiers up to its mediator call, with the loop of
\* _ScanVolumeSystemRoot over what it returns.
GetAPFSVolumeIdentifiers(volumes, path_spec, rest) ==
  LET volume_identifiers == volumes[path_spec]
      opened_ == Opened("APFS_CONTAINER", path_spec, volume_identifiers)
  IN  IF volume_identifiers = <<>> THEN Go(rest, base_path_specs, opened_)
      ELSE IF ~APFSConsultsMediator(volume_identifiers)
      THEN SelectedIdentifiers("GetAPFSVolumeIdentifiers", path_spec,
                               volume_identifiers, AsList(volume_identifiers),
                               rest, opened_)
      ELSE IF ~mediator
      THEN Fail(Raised("ScannerError", "APFS volumes found but no mediator", <<>>),
                opened_)
      ELSE Ask("GetAPFSVolumeIdentifiers", path_spec, volume_identifiers,
               rest, opened_)

\* _GetVSSStoreIdentifiers up to its mediator call.
GetVSSStoreIdentifiers(volumes, path_spec, rest) ==
  LET volume_identifiers == volumes[path_spec]
      opened_ == Opened("VSHADOW", path_spec, volume_identifiers)
  IN  IF volume_identifiers = <<>> THEN Go(rest, base_path_specs, opened_)
      ELSE IF ~VSSConsultsMediator(volume_identifiers)
      THEN SelectedIdentifiers("GetVSSStoreIdentifiers", path_spec,
                               volume_identifiers, AsList(volume_identifiers),
                               rest, opened_)
      ELSE IF ~mediator
      THEN Fail(Raised("ScannerError", "VSS stores found but no mediator", <<>>),
                opened_)
      ELSE Ask("GetVSSStoreIdentifiers", path_spec, volume_identifiers,
               rest, opened_)

\* This variant leaves a volume system of another type alone and goes on.
ScanVolumeSystemRootSkipsUnsupported(volumes, path_spec, rest) ==
  IF TypeIndicator(path_spec) = "APFS_CONTAINER"
  THEN GetAPFSVolumeIdentifiers(volumes, path_spec, rest)
  ELSE IF TypeIndicator(path_spec) = "VSHADOW"
  THEN GetVSSStoreIdentifiers(volumes, path_spec, rest)
  ELSE Go(rest, base_path_specs, <<>>)

\* _ScanVolumeSystemRoot up to the mediator call of the identifiers.
ScanVolumeSystemRoot(volumes, path_spec, rest) ==
  IF TypeIndicator(path_spec) = "APFS_CONTAINER"
  THEN GetAPFSVolumeIdentifiers(volumes, path_spec, rest)
  ELSE IF TypeIndicator(path_spec) = "VSHADOW"
  THEN GetVSSStoreIdentifiers(volumes, path_spec, rest)
  ELSE Fail(Raised("ScannerError", "Unsupported volume system type", <<>>), <<>>)

\* VolumeScanner._ScanFileSystem
ScanFileSystem(path_spec, rest) ==
  Go(rest, Append(base_path_specs, path_spec), <<>>)

\* WindowsVolumeScanner._ScanFileSystem: the file system is opened and
\* probed, and appended when a known directory was found.
WindowsScanFileSystem(path_spec, rest) ==
  LET found == ScanFileSystemForWindowsDirectory(path_spec)
  IN  [Go(rest,
          IF found # "" THEN Append(base_path_specs, path_spec)
          ELSE base_path_specs, <<>>)
       EXCEPT !.probed = <<[path_spec |-> path_spec, found |-> found]>>]

\* _ScanVolume of a node that is not locked (any more).
ScanUnlockedVolume(context, volumes, path_spec, rest) ==
  IF IsVolumeSystemRoot(path_spec)
  THEN ScanVolumeSystemRoot(volumes, path_spec, rest)
  ELSE IF IsFileSystem(path_spec)
  THEN IF scanner = "WindowsVolumeScanner"
       THEN WindowsScanFileSystem(path_spec, rest)
       ELSE ScanFileSystem(path_spec, rest)
  ELSE IF TypeIndicator(path_spec) = "VSHADOW"
  THEN Go(rest, Append(base_path_specs, Append(path_spec, Layer("TSK", <<"/">>))),
          <<>>)
  ELSE Go([i \in 1..Len(context.nodes[path_spec]) |->
             VolumeCall(context.nodes[path_spec][i])] \o rest,
          base_path_specs, <<>>)

\* This variant raises for a node that is still locked.
ScanVolumeStillLockedRaises(rest) ==
  Fail(Raised("ScannerError", "Unable to unlock volume", <<>>), <<>>)

\* _ScanVolume of a node that is still locked after _ScanEncryptedVolume:
\* the branch ends and the walk goes on with what is pending.
ScanVolumeStillLocked(rest) == Go(rest, base_path_specs, <<>>)

\* This variant looks for the mediator before it looks for credentials.
ScanEncryptedVolumeMediatorFirst(path_spec, rest) ==
  IF ~mediator
  THEN Fail(Raised("ScannerError", "Encrypted volume found but no mediator", <<>>),
            <<>>)
  ELSE IF ~HasCredentials(path_spec)
  THEN Fail(Raised("ScannerError", "Missing credentials for scan node", <<>>), <<>>)
  ELSE Ask("UnlockEncryptedVolume", path_spec, <<>>, rest, <<>>)

\* _ScanEncryptedVolume up to its mediator call.
ScanEncryptedVolume(path_spec, rest) ==
  IF ~HasCredentials(path_spec)
  THEN Fail(Raised("ScannerError", "Missing credentials for scan node", <<>>), <<>>)
  ELSE IF ~mediator
  THEN Fail(Raised("ScannerError", "Encrypted volume found but no mediator", <<>>),
            <<>>)
  ELSE Ask("UnlockEncryptedVolume", path_spec, <<>>, rest, <<>>)

\* _ScanVolume up to the first mediator call it makes.
ScanVolume(context, volumes, path_spec, rest) ==
  IF path_spec = <<>>
  THEN Fail(Raised("ScannerError", "Invalid or missing scan node", <<>>), <<>>)
  ELSE IF IsLockedScanNode(context, path_spec)
  THEN ScanEncryptedVolume(path_spec, rest)
  ELSE ScanUnlockedVolume(context, volumes, path_spec, rest)

\* This variant scans again whatever the mediator answered.
RescanAlways(result) == TRUE

\* Whether the subtree is scanned again after the mediator's answer to
\* UnlockEncryptedVolume.
RescanAfterUnlock(result) == result

\* ------------------------------------------------------------ the mediator
\* A mediator operation as invoked: before is the list of base path specs at
\* that time, answer is "pending" until the mediator answers; selection is the list it returned, processed the identifiers the
\* scanner then looped over, locked_after whether the node was locked once
\* the unlock had been dealt with.
MediatorCall(op, path_spec, candidates, before) ==
  [op |-> op, node |-> path_spec, candidates |-> candidates,
   before |-> before, answer |-> "pending", selection |-> <<>>, processed |-> <<>>,
   locked_after |-> FALSE]

\* The sequences without repetition over 1..n.
Arrangements(n) ==
  {a \in UNION {[1..k -> 1..n] : k \in 0..n} :
     \A i, j \in 1..Len(a) : i # j => a[i] # a[j]}

\* The lists a mediator returns for the candidates: candidates in any order,
\* as the strings they were given as or as bare indexes, and a list naming a
\* volume that does not exist.
Selections(candidates) ==
  {[i \in 1..Len(a) |-> StrValue(candidates[a[i]])] :
     a \in Arrangements(Len(candidates))}
  \cup {[i \in 1..Len(a) |-> IntValue(a[i])] :
          a \in Arrangements(Len(candidates))}
  \cup {<<IntValue(Len(candidates) + 1)>>}

\* ---------------------------------------------------------------- actions
Init ==
  /\ mediator \in BOOLEAN
  /\ request = <<>>
  /\ source_path = <<>>
  /\ source_type = "none"
  /\ scan_context = NoContext
  /\ backend = <<>>
  /\ pc = "idle"
  /\ scan_node = <<>>
  /\ stack = <<>>
  /\ base_path_specs = <<>>
  /\ pending = NoPending
  /\ outcome = NoOutcome
  /\ scans = <<>>
  /\ volume_systems = <<>>
  /\ mediator_calls = <<>>
  /\ norm = NoNorm
  /\ scanner = "VolumeScanner"
  /\ windows_directories = <<>>
  /\ file_systems = <<>>
  /\ file_system = <<>>
  /\ path_resolver = NoPathResolver
  /\ windows_directory = ""
  /\ probes = <<>>
  /\ calls = 0
  /\ windows_volume = NoResult
  /\ opened_file = NoResult

\* Takes a step of the call, given the mediator calls, the volume systems and
\* the probes of the call so far.
Log(step, mediator_calls_, volume_systems_, probes_) ==
  /\ pc' = step.pc
  /\ stack' = step.stack
  /\ base_path_specs' = step.base_path_specs
  /\ outcome' = step.outcome
  /\ pending' = step.pending
  /\ volume_systems' = volume_systems_ \o step.opened
  /\ mediator_calls' =
       IF step.pending.op = "none" THEN mediator_calls_
       ELSE Append(mediator_calls_,
                   MediatorCall(step.pending.op, step.pending.node,
                                step.pending.candidates, step.base_path_specs))
  /\ probes' = probes_ \o step.probed
  /\ windows_directory' =
       IF step.probed # <<>> /\ step.probed[1].found # ""
       THEN step.probed[1].found ELSE windows_directory

\* Takes a step of the call; `calls_` are the mediator calls so far.
Take(step, calls_) == Log(step, calls_, volume_systems, probes)

\* A step of GetBasePathSpecs made before its list exists and before any
\* _ScanVolume call is pending.
Begin(step) ==
  [step EXCEPT !.base_path_specs = <<>>,
               !.stack = IF step.pc = "done" THEN <<>> ELSE @]

\* Takes the first step of a call: nothing of an earlier call is kept.
TakeFirst(step) == Log(Begin(step), <<>>, <<>>, <<>>)

\* The checks of the source path GetBasePathSpecs starts with.
InvalidSourcePath(path) == path = <<>>

DevicePathPrefix == <<"\\", "\\", ".", "\\">>

\* This variant holds device paths to the existence check too.
MissingSourcePathAlsoDevice(path) == ~PathExists(path)

MissingSourcePath(path) ==
  ~StartsWith(path, DevicePathPrefix) /\ ~PathExists(path)

\* This variant takes a file for storage media too.
IsStorageMediaOrFile(type) ==
  type \in {"storage media device", "storage media image", "file"}

\* The source types GetBasePathSpecs walks the scan tree of.
IsStorageMedia(type) ==
  type \in {"storage media device", "storage media image"}

OpenSourcePath(path, scan) ==
  LET rows == TreeRows(scan.tree, <<>>)
  IN  [opened |-> TRUE, source_type |-> scan.source_type,
       root |-> <<Layer(scan.tree.type_indicator, scan.tree.location)>>,
       nodes |-> NodesOf(rows), locked |-> LockedOf(rows)]

\* What the Windows volume scanner is given to scan: a volume that is empty,
\* holds a file system, a VSS volume system and a file system, or a locked
\* volume, and a partition table of two file systems.
WindowsContents ==
  {<<>>, <<FileSystemNode>>, <<VSSRootNode(1), FileSystemNode>>,
   <<LockedVolumeNode("BDE")>>,
   <<PartitionTableNode(<<<<FileSystemNode>>, <<FileSystemNode>>>>, 0)>>}

\* The source paths and scans the calls are made with.
SourcePathsOf(class) ==
  IF class = "WindowsVolumeScanner" THEN {EmptyPath, ImagePath, DirectoryPath}
  ELSE SourcePaths

ScanResultsFor(class, path) ==
  IF class = "WindowsVolumeScanner" THEN ScanResultsOf(path, WindowsContents)
  ELSE ScanResults(path)

\* GetBasePathSpecs(path) up to the first _ScanVolume call or mediator call.
GetBasePathSpecs ==
  /\ pc = "idle" \/ (pc = "scanned" /\ calls < MaxCalls)
  /\ calls' = calls + 1
  /\ windows_volume' = NoResult
  /\ opened_file' = NoResult
  /\ \E path \in SourcePathsOf(scanner) :
       /\ request' = path
       /\ IF InvalidSourcePath(path)
          THEN /\ TakeFirst(Fail(Raised("ScannerError", "Invalid source path",
                                        <<>>), <<>>))
               /\ scan_context' = NoContext
               /\ backend' = <<>>
               /\ scan_node' = <<>>
               /\ scans' = <<>>
               /\ file_systems' = <<>>
               /\ UNCHANGED <<source_path, source_type>>
          ELSE IF MissingSourcePath(path)
          THEN /\ TakeFirst(Fail(Raised("ScannerError",
                                        "No such device, file or directory",
                                        path), <<>>))
               /\ scan_context' = NoContext
               /\ backend' = <<>>
               /\ scan_node' = <<>>
               /\ scans' = <<>>
               /\ file_systems' = <<>>
               /\ UNCHANGED <<source_path, source_type>>
          ELSE \E scan \in ScanResultsFor(scanner, path) :
                 LET context == OpenSourcePath(path, scan)
                     rows == TreeRows(scan.tree, <<>>)
                     volumes == VolumesOf(rows)
                     node == Descend(context.nodes, context.root)
                 IN  /\ scans' = <<[scan_path_spec |-> <<>>,
                                    result |-> scan.error]>>
                     /\ IF scan.error # "none"
                        THEN /\ scan_context' =
                                  [NoContext EXCEPT !.opened = TRUE]
                             /\ TakeFirst(Fail(Raised("ScannerError",
                                                      "Unable to scan source",
                                                      <<>>), <<>>))
                             /\ backend' = <<>>
                             /\ scan_node' = <<>>
                             /\ file_systems' = <<>>
                             /\ UNCHANGED <<source_path, source_type>>
                        ELSE /\ scan_context' = context
                             /\ backend' = volumes
                             /\ source_path' = path
                             /\ source_type' = context.source_type
                             /\ file_systems' \in
                                  DirectoryAssignments(
                                    FileSystemsOf(rows, context.source_type))
                             /\ IF ~IsStorageMedia(context.source_type)
                                THEN /\ scan_node' = context.root
                                     /\ TakeFirst(Step("done", <<>>, <<>>,
                                                       Returned(<<context.root>>),
                                                       NoPending, <<>>))
                                ELSE /\ scan_node' = node
                                     /\ TakeFirst(
                                          IF TypeIndicator(node) # "TSK_PARTITION"
                                          THEN Go(<<VolumeCall(node)>>, <<>>, <<>>)
                                          ELSE GetTSKPartitionIdentifiers(volumes,
                                                                          node))
  /\ UNCHANGED <<mediator, norm, scanner, windows_directories, file_system,
                 path_resolver>>

\* This variant skips an identifier that has no sub node.
SubNodeMissingSkipped(volume_identifier, rest) == Go(rest, base_path_specs, <<>>)

\* _ScanVolumeSystemRoot finds no sub node at the location of an identifier.
SubNodeMissing(volume_identifier, rest) ==
  Fail(Raised("ScannerError", "Scan node missing for volume identifier",
              volume_identifier), <<>>)

\* The innermost pending call runs up to its first mediator call.
ScanVolumeStep ==
  /\ pc = "walk"
  /\ stack # <<>>
  /\ LET call == Head(stack)
         rest == Tail(stack)
         sub_scan_node ==
           IF call.op = "volume" THEN call.node
           ELSE GetSubNodeByLocation(scan_context, call.node,
                                     <<"/">> \o call.identifier)
     IN  Take(IF call.op = "sub_node" /\ sub_scan_node = <<>>
              THEN SubNodeMissing(call.identifier, rest)
              ELSE ScanVolume(scan_context, backend, sub_scan_node, rest),
              mediator_calls)
  /\ UNCHANGED <<mediator, request, source_path, source_type, scan_context, backend,
                 scan_node, scans, norm, file_systems, session>>

\* The walk is over: GetBasePathSpecs returns the list.
ReturnBasePathSpecs ==
  /\ pc = "walk"
  /\ stack = <<>>
  /\ Take(Step("done", <<>>, base_path_specs, Returned(base_path_specs),
               NoPending, <<>>), mediator_calls)
  /\ UNCHANGED <<mediator, request, source_path, source_type, scan_context, backend,
                 scan_node, scans, norm, file_systems, session>>

Answered(answer, selection, processed, locked_after) ==
  [mediator_calls EXCEPT ![Len(mediator_calls)] =
     [@ EXCEPT !.answer = answer, !.selection = selection,
               !.processed = processed, !.locked_after = locked_after]]

\* The mediator returns a list of identifiers from one of its three
\* selection operations.
MediatorSelects ==
  /\ pc = "select"
  /\ \E selection \in Selections(pending.candidates) :
       Take(SelectedIdentifiers(pending.op, pending.node, pending.candidates,
                                PyList(selection), stack, <<>>),
            Answered("list", selection,
                     ProcessedIdentifiers(pending.op, pending.candidates,
                                          PyList(selection)), FALSE))
  /\ UNCHANGED <<mediator, request, source_path, source_type, scan_context, backend,
                 scan_node, scans, norm, file_systems, session>>

\* The mediator returns None from a selection operation.
MediatorSelectsNone ==
  /\ pc = "select"
  /\ Take(SelectedIdentifiers(pending.op, pending.node, pending.candidates,
                              PyNone, stack, <<>>),
          Answered("None", <<>>, <<>>, FALSE))
  /\ UNCHANGED <<mediator, request, source_path, source_type, scan_context, backend,
                 scan_node, scans, norm, file_systems, session>>

\* A KeyboardInterrupt is raised in a selection operation: the three callers
\* catch it and raise UserAbort.
MediatorSelectInterrupted ==
  /\ pc = "select"
  /\ Take(Fail(Raised("UserAbort", "File system scan aborted", <<>>), <<>>),
          Answered("interrupt", <<>>, <<>>, FALSE))
  /\ UNCHANGED <<mediator, request, source_path, source_type, scan_context, backend,
                 scan_node, scans, norm, file_systems, session>>

\* A KeyboardInterrupt is raised in UnlockEncryptedVolume: _ScanEncryptedVolume
\* has no handler, the interrupt leaves GetBasePathSpecs as it is.
MediatorUnlockInterrupted ==
  /\ pc = "unlock"
  /\ Take(Fail(Raised("KeyboardInterrupt", "", <<>>), <<>>),
          Answered("interrupt", <<>>, <<>>, TRUE))
  /\ UNCHANGED <<mediator, request, source_path, source_type, scan_context, backend,
                 scan_node, scans, norm, file_systems, session>>

\* The scan context after a Scan of the subtree of path_spec that found
\* `contents` beneath it and left it locked or not.
Rescanned(context, path_spec, contents, locked) ==
  LET rows == UNION {TreeRows(contents[i], path_spec) : i \in 1..Len(contents)}
      found == [i \in 1..Len(contents) |->
                  Append(path_spec, Layer(contents[i].type_indicator,
                                          contents[i].location))]
  IN  [context EXCEPT
         !.nodes = [p \in DOMAIN context.nodes \cup {r.path_spec : r \in rows} |->
                      IF p = path_spec THEN context.nodes[p] \o found
                      ELSE IF p \in DOMAIN context.nodes THEN context.nodes[p]
                      ELSE RowOf(rows, p).sub_nodes],
         !.locked = ((context.locked \ {path_spec})
                       \cup (IF locked THEN {path_spec} ELSE {}))
                    \cup LockedOf(rows)]

RescannedVolumes(volumes, path_spec, contents) ==
  LET rows == UNION {TreeRows(contents[i], path_spec) : i \in 1..Len(contents)}
  IN  [p \in DOMAIN volumes \cup {r.path_spec : r \in rows} |->
         IF p \in DOMAIN volumes THEN volumes[p] ELSE RowOf(rows, p).volumes]

\* UnlockEncryptedVolume returns False: no Scan, the node is locked as before.
MediatorUnlockFails ==
  /\ pc = "unlock"
  /\ ~RescanAfterUnlock(FALSE)
  /\ Take(IF IsLockedScanNode(scan_context, pending.node)
          THEN ScanVolumeStillLocked(stack)
          ELSE ScanUnlockedVolume(scan_context, backend, pending.node, stack),
          Answered("False", <<>>, <<>>,
                   IsLockedScanNode(scan_context, pending.node)))
  /\ UNCHANGED <<mediator, request, source_path, source_type, scan_context, backend,
                 scan_node, scans, norm, file_systems, session>>

\* UnlockEncryptedVolume returns an answer after which the subtree is scanned
\* again, and the Scan raises: _ScanEncryptedVolume has no handler.
RescanRaises ==
  /\ pc = "unlock"
  /\ \E result \in BOOLEAN, error \in {"BackEndError", "ValueError"} :
       /\ RescanAfterUnlock(result)
       /\ scans' = Append(scans, [scan_path_spec |-> pending.node,
                                  result |-> error])
       /\ Take(Fail(Raised(error, "", <<>>), <<>>),
               Answered(IF result THEN "True" ELSE "False", <<>>, <<>>, TRUE))
  /\ UNCHANGED <<mediator, request, source_path, source_type, scan_context, backend,
                 scan_node, norm, file_systems, session>>

\* UnlockEncryptedVolume returns an answer after which the subtree is scanned
\* again; the Scan finds what lies beneath the node and settles whether the
\* node is locked; _ScanVolume then reads the locked state again.
MediatorUnlocks ==
  /\ pc = "unlock"
  /\ \E result \in BOOLEAN, contents \in UnlockedContents, locked \in BOOLEAN :
       LET context == Rescanned(scan_context, pending.node, contents, locked)
           volumes == RescannedVolumes(backend, pending.node, contents)
           rows == UNION {TreeRows(contents[i], pending.node) :
                            i \in 1..Len(contents)}
       IN  /\ RescanAfterUnlock(result)
           /\ \E found \in DirectoryAssignments(FileSystemsOf(rows, "none")) :
                file_systems' =
                  [p \in DOMAIN file_systems \cup DOMAIN found |->
                     IF p \in DOMAIN found THEN found[p] ELSE file_systems[p]]
           /\ scan_context' = context
           /\ backend' = volumes
           /\ scans' = Append(scans, [scan_path_spec |-> pending.node,
                                      result |-> "none"])
           /\ Take(IF IsLockedScanNode(context, pending.node)
                   THEN ScanVolumeStillLocked(stack)
                   ELSE ScanUnlockedVolume(context, volumes, pending.node, stack),
                   Answered(IF result THEN "True" ELSE "False", <<>>, <<>>,
                            IsLockedScanNode(context, pending.node)))
  /\ UNCHANGED <<mediator, request, source_path, source_type, scan_node, norm,
                 session>>

Next ==
  \/ GetBasePathSpecs
  \/ ScanVolumeStep
  \/ ReturnBasePathSpecs
  \/ MediatorSelects
  \/ MediatorSelectsNone
  \/ MediatorSelectInterrupted
  \/ MediatorUnlockInterrupted
  \/ MediatorUnlockFails
  \/ RescanRaises
  \/ MediatorUnlocks

Spec == Init /\ [][Next]_vars

\* ------------------------------------------- the Windows volume scanner
\* WindowsPathResolver(file_system, mount_point), no variable set.
WindowsPathResolver(path_spec, mount_point) ==
  [file_system |-> path_spec, mount_point |-> mount_point,
   SystemRoot |-> "", WinDir |-> ""]

\* ScanForWindowsVolume once its GetBasePathSpecs call has ended: an
\* exception of the call leaves the method as it is; an empty list or a file
\* gives False; else the first path spec is opened, probed when no Windows
\* directory is set, and the variables are set to the directory. The scan
\* context, the lists and what the call logged end with the call: the object
\* keeps its attributes, and windows_volume tells how the call ended.
ScanForWindowsVolume ==
  /\ scanner = "WindowsVolumeScanner"
  /\ pc = "done"
  /\ pc' = "scanned"
  /\ IF outcome.kind # "return"
     THEN /\ windows_volume' = Result(outcome.kind, "")
          /\ UNCHANGED <<file_system, path_resolver, windows_directory>>
     ELSE IF outcome.value = <<>> \/ source_type = "file"
     THEN /\ windows_volume' = Result("return", "False")
          /\ UNCHANGED <<file_system, path_resolver, windows_directory>>
     ELSE LET file_system_path_spec == outcome.value[1]
              mount_point ==
                IF TypeIndicator(file_system_path_spec) = "OS"
                THEN file_system_path_spec
                ELSE SubSeq(file_system_path_spec, 1,
                            Len(file_system_path_spec) - 1)
              resolver == WindowsPathResolver(file_system_path_spec, mount_point)
              found == ScanFileSystemForWindowsDirectory(file_system_path_spec)
              directory == IF windows_directory = "" THEN found
                           ELSE windows_directory
          IN  /\ file_system' = file_system_path_spec
              /\ windows_directory' = directory
              /\ IF directory = ""
                 THEN /\ path_resolver' = resolver
                      /\ windows_volume' = Result("return", "False")
                 ELSE /\ path_resolver' =
                           [resolver EXCEPT !.SystemRoot = directory,
                                            !.WinDir = directory]
                      /\ windows_volume' = Result("return", "True")
  /\ scan_context' = NoContext
  /\ backend' = <<>>
  /\ scan_node' = <<>>
  /\ stack' = <<>>
  /\ base_path_specs' = <<>>
  /\ pending' = NoPending
  /\ scans' = <<>>
  /\ volume_systems' = <<>>
  /\ mediator_calls' = <<>>
  /\ request' = <<>>
  /\ outcome' = NoOutcome
  /\ file_systems' = <<>>
  /\ probes' = <<>>
  /\ UNCHANGED <<mediator, source_path, source_type, norm, scanner,
                 windows_directories, calls, opened_file>>

\* The Windows paths OpenFile is called with.
WindowsPaths == {"C:\\boot.ini", "%SystemRoot%\\system32\\config\\SYSTEM"}

\* OpenFile(windows_path), between two scans: `exists` is whether the file
\* system holds the file. A path that uses a variable which is not set does
\* not resolve.
OpenFile ==
  /\ scanner = "WindowsVolumeScanner"
  /\ pc \in {"idle", "scanned"}
  /\ \E windows_path \in WindowsPaths, exists \in BOOLEAN :
       opened_file' =
         IF path_resolver = NoPathResolver
         THEN Result("AttributeError", "")
         ELSE IF ~exists \/ (windows_path # "C:\\boot.ini"
                               /\ path_resolver.SystemRoot = "")
         THEN Result("return", "None")
         ELSE Result("return", "FileIO")
  /\ UNCHANGED <<mediator, request, source_path, source_type, scan_context,
                 backend, pc, scan_node, stack, base_path_specs, pending,
                 outcome, scans, volume_systems, mediator_calls, norm, scanner,
                 windows_directories, file_systems, file_system, path_resolver,
                 windows_directory, probes, calls, windows_volume>>

WindowsInit ==
  /\ mediator \in BOOLEAN
  /\ request = <<>>
  /\ source_path = <<>>
  /\ source_type = "none"
  /\ scan_context = NoContext
  /\ backend = <<>>
  /\ pc = "idle"
  /\ scan_node = <<>>
  /\ stack = <<>>
  /\ base_path_specs = <<>>
  /\ pending = NoPending
  /\ outcome = NoOutcome
  /\ scans = <<>>
  /\ volume_systems = <<>>
  /\ mediator_calls = <<>>
  /\ norm = NoNorm
  /\ scanner = "WindowsVolumeScanner"
  /\ windows_directories \in IterationOrders
  /\ file_systems = <<>>
  /\ file_system = <<>>
  /\ path_resolver = NoPathResolver
  /\ windows_directory = ""
  /\ probes = <<>>
  /\ calls = 0
  /\ windows_volume = NoResult
  /\ opened_file = NoResult

WindowsNext ==
  \/ GetBasePathSpecs
  \/ ScanVolumeStep
  \/ ReturnBasePathSpecs
  \/ MediatorSelects
  \/ MediatorSelectsNone
  \/ MediatorSelectInterrupted
  \/ MediatorUnlockInterrupted
  \/ MediatorUnlockFails
  \/ RescanRaises
  \/ MediatorUnlocks
  \/ ScanForWindowsVolume
  \/ OpenFile

WindowsSpec == WindowsInit /\ [][WindowsNext]_vars

\* --------------------------------- _NormalizedVolumeIdentifiers on its own
NormPrefixes == {<<"p">>, <<"v", "s", "s">>, <<"a", "p", "f", "s">>}

\* The identifiers a volume system may hold volumes for: prefixed indexes, and
\* one that bears no prefix.
NormVolumes(prefix) ==
  {prefix \o FormatInt(i) : i \in 1..MaxIndex} \cup {FormatInt(1)}

\* Elements of the volume_identifiers argument: ints, prefixed and bare
\* numerals, and strings that are neither.
NormIdentifiers(prefix) ==
  {IntValue(i) : i \in (0 - 1)..MaxIndex}
  \cup {StrValue(prefix \o FormatInt(i)) : i \in 1..MaxIndex}
  \cup {StrValue(FormatInt(i)) : i \in 1..MaxIndex}
  \cup {StrValue(<<" ", "1">>), StrValue(<<"0", "1">>), StrValue(<<"x">>),
        StrValue(prefix)}

NormInit ==
  /\ mediator = FALSE
  /\ request = <<>>
  /\ source_path = <<>>
  /\ source_type = "none"
  /\ scan_context = NoContext
  /\ backend = <<>>
  /\ pc = "idle"
  /\ scan_node = <<>>
  /\ stack = <<>>
  /\ base_path_specs = <<>>
  /\ pending = NoPending
  /\ outcome = NoOutcome
  /\ scans = <<>>
  /\ volume_systems = <<>>
  /\ mediator_calls = <<>>
  /\ scanner = "VolumeScanner"
  /\ windows_directories = <<>>
  /\ file_systems = <<>>
  /\ file_system = <<>>
  /\ path_resolver = NoPathResolver
  /\ windows_directory = ""
  /\ probes = <<>>
  /\ calls = 0
  /\ windows_volume = NoResult
  /\ opened_file = NoResult
  /\ \E prefix \in NormPrefixes :
       \E volumes \in SUBSET NormVolumes(prefix) :
         \E input \in {PyNone} \cup
                     {PyList(l) : l \in UNION {[1..n -> NormIdentifiers(prefix)] :
                                                 n \in 0..MaxIdentifiers}} :
           norm = [pc |-> "input", volumes |-> volumes, prefix |-> prefix,
                   input |-> input, result |-> NoOutcome, again |-> NoOutcome]

\* _NormalizedVolumeIdentifiers(volume_system, volume_identifiers, prefix)
Normalize ==
  /\ norm.pc = "input"
  /\ norm' = [norm EXCEPT
                !.pc = "normalized",
                !.result = NormalizedVolumeIdentifiers(
                             norm.volumes, norm.input, norm.prefix)]
  /\ UNCHANGED <<mediator, request, source_path, source_type, scan_context,
                 backend, pc, scan_node, stack, base_path_specs, pending,
                 outcome, scans, volume_systems, mediator_calls, file_systems,
                 windows_directory, probes, session>>

\* _NormalizedVolumeIdentifiers applied to the list it returned.
NormalizeAgain ==
  /\ norm.pc = "normalized"
  /\ norm.result.kind = "return"
  /\ norm' = [norm EXCEPT
                !.pc = "renormalized",
                !.again = NormalizedVolumeIdentifiers(
                            norm.volumes, AsList(norm.result.value), norm.prefix)]
  /\ UNCHANGED <<mediator, request, source_path, source_type, scan_context,
                 backend, pc, scan_node, stack, base_path_specs, pending,
                 outcome, scans, volume_systems, mediator_calls, file_systems,
                 windows_directory, probes, session>>

NormNext ==
  \/ Normalize
  \/ NormalizeAgain

NormSpec == NormInit /\ [][NormNext]_vars

\* ------------------------------------------------------------- properties
\* The path spec is that of the node or of something beneath it.
Beneath(node, path_spec) ==
  /\ Len(path_spec) >= Len(node)
  /\ SubSeq(path_spec, 1, Len(node)) = node

IsPrefixOf(s, t) == Len(s) <= Len(t) /\ SubSeq(t, 1, Len(s)) = s

CallsOf(op) ==
  {i \in DOMAIN mediator_calls : mediator_calls[i].op = op}

OpenedOf(types) ==
  {i \in DOMAIN volume_systems : volume_systems[i].type \in types}

\* C1: at a partition-table decision node, a volume system with exactly one
\* partition identifier never leads to GetPartitionIdentifiers; with two or
\* more the operation is invoked for that node when a mediator is configured,
\* and the call ends with ScannerError, no mediator operation invoked, when
\* none is.
C1_PartitionSelection ==
  \A i \in OpenedOf({"TSK_PARTITION"}) :
    LET v == volume_systems[i]
    IN  /\ v.node = scan_node
        /\ Len(v.volume_identifiers) = 1 =>
             CallsOf("GetPartitionIdentifiers") = {}
        /\ Len(v.volume_identifiers) >= 2 /\ mediator =>
             \E c \in CallsOf("GetPartitionIdentifiers") :
               /\ mediator_calls[c].node = v.node
               /\ mediator_calls[c].candidates = v.volume_identifiers
        /\ Len(v.volume_identifiers) >= 2 /\ ~mediator =>
             /\ outcome.kind = "ScannerError"
             /\ mediator_calls = <<>>

\* C1: several partitions were put to the configured mediator, and the call
\* returned what was found in the selected ones.
C1_Witness ==
  /\ mediator
  /\ outcome.kind = "return"
  /\ outcome.value # <<>>
  /\ \E i \in OpenedOf({"TSK_PARTITION"}) :
       Len(volume_systems[i].volume_identifiers) >= 2
  /\ CallsOf("GetPartitionIdentifiers") # {}

\* C1: a single partition was processed without any mediator call.
C1_WitnessSingle ==
  /\ mediator
  /\ pc = "done"
  /\ \E i \in OpenedOf({"TSK_PARTITION"}) :
       Len(volume_systems[i].volume_identifiers) = 1
  /\ mediator_calls = <<>>

\* C1: several partitions and no mediator.
C1_WitnessNoMediator ==
  /\ ~mediator
  /\ outcome.kind = "ScannerError"
  /\ \E i \in OpenedOf({"TSK_PARTITION"}) :
       Len(volume_systems[i].volume_identifiers) >= 2

\* C2 as stated: every APFS container and every VSS volume system the walk
\* opens that enumerates one or more identifiers is put to the mediator
\* (GetAPFSVolumeIdentifiers, GetVSSStoreIdentifiers), also with exactly one
\* identifier, and the call ends with ScannerError when no mediator is
\* configured.
C2_AlwaysConsulted ==
  \A i \in OpenedOf({"APFS_CONTAINER", "VSHADOW"}) :
    LET v == volume_systems[i]
        op == IF v.type = "VSHADOW" THEN "GetVSSStoreIdentifiers"
              ELSE "GetAPFSVolumeIdentifiers"
    IN  Len(v.volume_identifiers) >= 1 =>
          IF mediator
          THEN \E c \in CallsOf(op) : mediator_calls[c].node = v.node
          ELSE outcome.kind = "ScannerError"

\* C2 amended: a VSS volume system with one or more identifiers is always put
\* to the mediator, and the call ends with ScannerError when none is
\* configured; an APFS container is put to the mediator only when it
\* enumerates two or more identifiers (ScannerError without mediator); an
\* APFS container with exactly one identifier is never put to the mediator,
\* with or without one configured.
C2_ConsultedAsCoded ==
  \A i \in OpenedOf({"APFS_CONTAINER", "VSHADOW"}) :
    LET v == volume_systems[i]
        op == IF v.type = "VSHADOW" THEN "GetVSSStoreIdentifiers"
              ELSE "GetAPFSVolumeIdentifiers"
        consulted == \E c \in CallsOf(op) :
                       /\ mediator_calls[c].node = v.node
                       /\ mediator_calls[c].candidates = v.volume_identifiers
        several == Len(v.volume_identifiers) >= 2
        one == Len(v.volume_identifiers) = 1
    IN  /\ (several \/ (one /\ v.type = "VSHADOW")) =>
             IF mediator THEN consulted
             ELSE outcome.kind = "ScannerError" /\ ~consulted
        /\ one /\ v.type = "APFS_CONTAINER" =>
             /\ ~consulted
             /\ outcome.message # "APFS volumes found but no mediator"

\* C2: a VSS volume system with exactly one store was put to the mediator.
C2_WitnessVSS ==
  /\ outcome.kind = "return"
  /\ \E i \in OpenedOf({"VSHADOW"}) :
       /\ Len(volume_systems[i].volume_identifiers) = 1
       /\ \E c \in CallsOf("GetVSSStoreIdentifiers") :
            /\ mediator_calls[c].node = volume_systems[i].node
            /\ mediator_calls[c].answer = "list"

\* C2: an APFS container with exactly one volume, no mediator configured, and
\* the volume's file system returned.
C2_Witness ==
  /\ ~mediator
  /\ outcome.kind = "return"
  /\ outcome.value # <<>>
  /\ \E i \in OpenedOf({"APFS_CONTAINER"}) :
       Len(volume_systems[i].volume_identifiers) = 1

\* C3 as stated: a KeyboardInterrupt raised in any of the four mediator
\* operations ends GetBasePathSpecs with UserAbort.
C3_InterruptIsUserAbort ==
  \A c \in DOMAIN mediator_calls :
    mediator_calls[c].answer = "interrupt" => outcome.kind = "UserAbort"

\* C3, the three selection operations alone: there the interrupt ends the call
\* with UserAbort.
C3_SelectionInterruptIsUserAbort ==
  \A c \in DOMAIN mediator_calls :
    /\ mediator_calls[c].answer = "interrupt"
    /\ mediator_calls[c].op # "UnlockEncryptedVolume"
    => outcome.kind = "UserAbort"

\* C4 as stated: every Scan of the call that raises, the first one and the one
\* after an unlock, ends GetBasePathSpecs with ScannerError.
C4_ScanErrorsWrapped ==
  \A i \in DOMAIN scans :
    scans[i].result # "none" => outcome.kind = "ScannerError"

\* C4, the first Scan alone: its errors end the call with ScannerError.
C4_FirstScanErrorWrapped ==
  \A i \in DOMAIN scans :
    scans[i].result # "none" /\ scans[i].scan_path_spec = <<>>
    => outcome.kind = "ScannerError"

FailedUnlocks ==
  {c \in CallsOf("UnlockEncryptedVolume") : mediator_calls[c].answer = "False"}

AnsweredUnlocks ==
  {c \in CallsOf("UnlockEncryptedVolume") :
     mediator_calls[c].answer \in {"True", "False"}}

\* C5, the list: after UnlockEncryptedVolume returned False for a node, the
\* list holds what it held when the mediator was asked, nothing of the node or
\* beneath it is ever in it, and the list returned is the list of the walk.
C5_FailedUnlockList ==
  \A c \in FailedUnlocks :
    LET u == mediator_calls[c]
    IN  /\ IsPrefixOf(u.before, base_path_specs)
        /\ \A i \in DOMAIN base_path_specs : ~Beneath(u.node, base_path_specs[i])
        /\ \A i \in DOMAIN stack : ~Beneath(u.node, stack[i].node)
        /\ outcome.kind = "return" => outcome.value = base_path_specs

\* C5: a locked node whose unlock the mediator reports as failed raises no
\* error and ends only its own branch (the step leaves the list and the
\* pending calls of the other branches as they are, and the walk goes on);
\* it contributes no entry, itself or beneath it, and the entries of the
\* branches before and after it are in the list returned.
C5_FailedUnlockContributesNothing ==
  /\ [][(pc = "unlock" /\ mediator_calls'[Len(mediator_calls)].answer = "False")
          => /\ outcome'.kind = "none"
             /\ pc' = "walk"
             /\ stack' = stack
             /\ base_path_specs' = base_path_specs]_vars
  /\ []C5_FailedUnlockList

\* C5: the call returned entries found before and entries found after a node
\* that failed to unlock.
C5_Witness ==
  /\ outcome.kind = "return"
  /\ \E c \in FailedUnlocks :
       /\ mediator_calls[c].before # <<>>
       /\ Len(outcome.value) > Len(mediator_calls[c].before)

\* C6: a Scan scoped to the locked node's path spec is run if and only if
\* UnlockEncryptedVolume returned True; the locked state the walk goes by is
\* the one the scan context holds after it; a node still locked after an
\* unlock reported as successful ends its branch: nothing is appended for it
\* and nothing beneath it is visited.
C6_RescanIffUnlocked ==
  \A c \in AnsweredUnlocks :
    LET u == mediator_calls[c]
    IN  /\ (\E i \in DOMAIN scans : scans[i].scan_path_spec = u.node)
             <=> u.answer = "True"
        /\ u.locked_after = IsLockedScanNode(scan_context, u.node)
        /\ u.locked_after =>
             /\ \A i \in DOMAIN base_path_specs :
                  ~Beneath(u.node, base_path_specs[i])
             /\ \A i \in DOMAIN stack : ~Beneath(u.node, stack[i].node)
             /\ IsPrefixOf(u.before, base_path_specs)

\* C6: the mediator reported the unlock as successful, the Scan found nodes
\* beneath the node, the node was still locked, and the call returned.
C6_Witness ==
  /\ outcome.kind = "return"
  /\ \E c \in AnsweredUnlocks :
       /\ mediator_calls[c].answer = "True"
       /\ mediator_calls[c].locked_after
       /\ scan_context.nodes[mediator_calls[c].node] # <<>>

PositionIn(seq, x) == CHOOSE i \in 1..Len(seq) : seq[i] = x

\* C7 as stated: the VSS store identifiers processed for a VSS root are in
\* reverse order of the volume system's enumeration, most recent first, for
\* every selection the mediator returns.
C7_ReverseEnumerationOrder ==
  \A c \in CallsOf("GetVSSStoreIdentifiers") :
    LET u == mediator_calls[c]
    IN  \A i, j \in DOMAIN u.processed :
          i < j => PositionIn(u.candidates, u.processed[i])
                     > PositionIn(u.candidates, u.processed[j])

\* C7, what the code does: the identifiers are processed in the reverse of the
\* order the mediator returned them in.
C7_ReverseSelectionOrder ==
  \A c \in CallsOf("GetVSSStoreIdentifiers") :
    LET u == mediator_calls[c]
    IN  u.processed # <<>> =>
          /\ Len(u.processed) = Len(u.selection)
          /\ \A i \in DOMAIN u.processed :
               LET s == u.selection[Len(u.selection) + 1 - i]
               IN  u.processed[i] =
                     IF s.type = "int" THEN VSSStoreIdentifier(s.int) ELSE s.str

\* A decimal numeral as '{0:d}' writes it.
IsNumeral(s) == ParseInt(s).ok /\ FormatInt(ParseInt(s).value) = s

\* The identifiers C8 speaks of, and what each is to become: an int and a
\* bare numeral get the prefix, an identifier bearing the prefix is kept.
C8_Covered(x, prefix) ==
  \/ x.type = "int"
  \/ x.type = "str" /\ StartsWith(x.str, prefix)
  \/ x.type = "str" /\ IsNumeral(x.str)

C8_Expected(x, prefix) ==
  IF x.type = "int" THEN prefix \o FormatInt(x.int)
  ELSE IF StartsWith(x.str, prefix) THEN x.str
  ELSE prefix \o x.str

\* C8: normalization with prefix p maps the int 2 and the bare numeral "2" to
\* "p2" and keeps "p2" (and so for every prefix and index); every identifier
\* returned names a volume of the volume system; and when the rewriting of an
\* identifier names no volume, the call raises ScannerError with that
\* identifier (the first such one) in its message instead of returning.
C8_Normalization ==
  norm.pc # "input" /\ norm.input.type = "list" =>
    LET items == norm.input.items
        covered == \A i \in DOMAIN items : C8_Covered(items[i], norm.prefix)
        missing == {i \in DOMAIN items :
                      C8_Expected(items[i], norm.prefix) \notin norm.volumes}
    IN  /\ norm.result.kind \in {"return", "ScannerError"}
        /\ norm.result.kind = "return" =>
             /\ Len(norm.result.value) = Len(items)
             /\ \A i \in DOMAIN items :
                  /\ norm.result.value[i] \in norm.volumes
                  /\ C8_Covered(items[i], norm.prefix) =>
                       norm.result.value[i] = C8_Expected(items[i], norm.prefix)
        /\ norm.result.kind = "ScannerError" =>
             /\ norm.result.message = "Volume missing for identifier"
             /\ norm.result.arg \notin norm.volumes
        /\ covered /\ missing # {} =>
             /\ norm.result.kind = "ScannerError"
             /\ norm.result.arg =
                  C8_Expected(items[CHOOSE i \in missing :
                                      \A j \in missing : i <= j], norm.prefix)
        /\ covered /\ missing = {} => norm.result.kind = "return"

\* C8: with prefix p, the bare numeral "2" and "p2" were normalized to
\* "p2", "p2".
C8_Witness ==
  /\ norm.pc = "normalized"
  /\ norm.prefix = <<"p">>
  /\ norm.input = PyList(<<StrValue(<<"2">>), StrValue(<<"p", "2">>)>>)
  /\ norm.result = Returned(<<<<"p", "2">>, <<"p", "2">>>>)

\* C8: the int 2 was normalized to "p2"; no such volume, ScannerError names it.
C8_WitnessMissing ==
  /\ norm.pc = "normalized"
  /\ norm.prefix = <<"p">>
  /\ norm.input = PyList(<<StrValue(<<"p", "1">>), IntValue(2)>>)
  /\ norm.result.kind = "ScannerError"
  /\ norm.result.arg = <<"p", "2">>

\* C9: normalization is idempotent: applied to the list it returned, it
\* returns that list again.
C9_Idempotent ==
  norm.pc = "renormalized" => norm.again = norm.result

\* C9: a list of an int and a bare numeral was normalized, and normalized
\* again.
C9_Witness ==
  /\ norm.pc = "renormalized"
  /\ norm.input = PyList(<<IntValue(1), StrValue(<<"2">>)>>)
  /\ norm.again.kind = "return"
  /\ Len(norm.again.value) = 2

\* Windows device path syntax: the path starts with \\.\
IsDevicePath(path) ==
  /\ Len(path) >= 4
  /\ path[1] = "\\" /\ path[2] = "\\" /\ path[3] = "." /\ path[4] = "\\"

\* C10: a call with an empty source path, or with one that does not exist and
\* is no device path, ends with ScannerError and has opened no scan context,
\* run no Scan, opened no volume system and consulted no mediator; a device
\* path is not held to exist: its scan context is opened and scanned.
C10_SourcePathChecked ==
  pc # "idle" =>
    /\ (request = <<>> \/ (~PathExists(request) /\ ~IsDevicePath(request))) =>
         /\ outcome.kind = "ScannerError"
         /\ ~scan_context.opened
         /\ scans = <<>>
         /\ volume_systems = <<>>
         /\ mediator_calls = <<>>
    /\ IsDevicePath(request) =>
         /\ scan_context.opened
         /\ scans # <<>>

\* C10: a device path, which os.path.exists() does not know, was scanned and
\* the call returned.
C10_Witness ==
  /\ request = DevicePath
  /\ ~PathExists(request)
  /\ outcome.kind = "return"
  /\ outcome.value # <<>>

\* C10: the call with the empty path and the one with the missing path failed.
C10_WitnessRejected ==
  /\ request \in {EmptyPath, MissingPath}
  /\ outcome.kind = "ScannerError"

\* C11: when the source is classified as anything but a storage media device
\* or image, GetBasePathSpecs returns the list of one element, the path spec
\* of the root scan node, and has opened no volume system and invoked no
\* mediator operation, whatever the scan found beneath the root.
C11_NonStorageMediaSource ==
  /\ scan_context.opened
  /\ scan_context.source_type \notin
       {"none", "storage media device", "storage media image"}
  => /\ pc = "done"
     /\ outcome = Returned(<<scan_context.root>>)
     /\ Len(outcome.value) = 1
     /\ volume_systems = <<>>
     /\ mediator_calls = <<>>
     /\ Len(scans) = 1

\* C11: a file with a file system beneath a compressed stream layer was given,
\* and the call returned its root path spec.
C11_Witness ==
  /\ source_type = "file"
  /\ outcome.kind = "return"
  /\ scan_context.nodes[scan_context.root] # <<>>
  /\ \E p \in DOMAIN scan_context.nodes : IsFileSystem(p)

\* C11: a directory was given.
C11_WitnessDirectory ==
  /\ source_type = "directory"
  /\ outcome = Returned(<<<<Layer("OS", DirectoryPath)>>>>)

\* The scan context of a source whose scan finds `contents` in the volume.
ContextOf(path, contents) ==
  NodesOf(TreeRows(StorageMediaTree(path, contents), <<>>))

SinglePartition == <<PartitionTableNode(<<<<FileSystemNode>>>>, 0)>>

SinglePartitionFileSystem(path) ==
  <<Layer("OS", path), Layer("RAW", <<>>), Layer("TSK_PARTITION", <<"/">>),
    Layer("TSK_PARTITION", <<"/", "p", "1">>), Layer("NTFS", <<"/">>)>>

\* C12: for a storage media image whose scan tree is a partition table of one
\* partition that holds one file system, GetBasePathSpecs raises nothing and
\* returns the list of one element, the path spec of the file system node,
\* and no mediator operation is invoked, with or without mediator.
C12_SinglePartitionSingleFileSystem ==
  /\ source_type = "storage media image"
  /\ scan_context.nodes = ContextOf(request, SinglePartition)
  => /\ mediator_calls = <<>>
     /\ outcome.kind \in {"none", "return"}
     /\ pc \in {"walk", "done"}
     /\ pc = "done" =>
          /\ outcome = Returned(<<SinglePartitionFileSystem(request)>>)
          /\ IsFileSystem(outcome.value[1])
          /\ outcome.value[1] \in DOMAIN scan_context.nodes

\* C12: such an image was given to a scanner without mediator, and the call
\* returned.
C12_Witness ==
  /\ ~mediator
  /\ source_type = "storage media image"
  /\ scan_context.nodes = ContextOf(request, SinglePartition)
  /\ outcome.kind = "return"

\* The step of a loop over selected identifiers looks at `child`: it raises,
\* asks the mediator about it, opens its volume system, appends its path spec
\* (or the file system synthesized beneath it), or goes on with its sub nodes.
ResolvesChild(child) ==
  \/ pc' = "done" /\ outcome'.kind = "ScannerError"
  \/ pc' = "unlock" /\ pending'.node = child
  \/ /\ Len(volume_systems') = Len(volume_systems) + 1
     /\ volume_systems'[Len(volume_systems')].node = child
  \/ /\ base_path_specs' \in
          {Append(base_path_specs, child),
           Append(base_path_specs, Append(child, Layer("TSK", <<"/">>)))}
     /\ stack' = Tail(stack)
  \/ /\ base_path_specs' = base_path_specs
     /\ stack' = [i \in 1..Len(scan_context.nodes[child]) |->
                    VolumeCall(scan_context.nodes[child][i])] \o Tail(stack)

\* C13: in the loop over partition identifiers of GetBasePathSpecs and in the
\* loop of _ScanVolumeSystemRoot, each selected identifier is resolved to the
\* sub node at location "/" + identifier of the node being resolved, and when
\* there is none the call ends with ScannerError, nothing appended and no
\* later identifier looked at.
C13_ResolvedByLocation ==
  [][(pc = "walk" /\ stack # <<>> /\ Head(stack).op \in {"partition", "sub_node"})
       => LET call == Head(stack)
              sub_nodes == scan_context.nodes[call.node]
              found == {i \in 1..Len(sub_nodes) :
                          Location(sub_nodes[i]) = <<"/">> \o call.identifier}
          IN  IF found = {}
              THEN /\ pc' = "done"
                   /\ outcome'.kind = "ScannerError"
                   /\ base_path_specs' = base_path_specs
                   /\ stack' = stack
                   /\ mediator_calls' = mediator_calls
                   /\ volume_systems' = volume_systems
              ELSE ResolvesChild(sub_nodes[CHOOSE i \in found :
                                            \A j \in found : i <= j])]_vars

\* C13: a selected VSS store has no sub node, and the call ended with
\* ScannerError.
C13_Witness ==
  /\ outcome.kind = "ScannerError"
  /\ stack # <<>>
  /\ Head(stack).op = "sub_node"
  /\ GetSubNodeByLocation(scan_context, Head(stack).node,
                          <<"/">> \o Head(stack).identifier) = <<>>
  /\ CallsOf("GetVSSStoreIdentifiers") # {}

\* C13: a partition identifier has no sub node, and the call ended with
\* ScannerError.
C13_WitnessPartition ==
  /\ outcome.kind = "ScannerError"
  /\ stack # <<>>
  /\ Head(stack).op = "partition"
  /\ GetSubNodeByLocation(scan_context, Head(stack).node,
                          <<"/">> \o Head(stack).identifier) = <<>>

\* C13: the file systems of two selected partitions were returned.
C13_WitnessResolved ==
  /\ outcome.kind = "return"
  /\ Len(outcome.value) >= 2
  /\ \E c \in CallsOf("GetPartitionIdentifiers") :
       Len(mediator_calls[c].processed) >= 2

\* The step in which ScanForWindowsVolume ends, its GetBasePathSpecs call
\* having returned.
ScanForWindowsVolumeEnds == pc = "done" /\ pc' = "scanned"

\* The first call on a scanner, for a source that is no file and has one
\* file system, which holds C:\WINNT and not C:\Windows and is the one
\* GetBasePathSpecs returned.
WINNTSource ==
  /\ calls = 1
  /\ outcome.kind = "return"
  /\ source_type # "file"
  /\ Cardinality(DOMAIN file_systems) = 1
  /\ \A p \in DOMAIN file_systems :
       /\ "C:\\WINNT" \in file_systems[p]
       /\ "C:\\Windows" \notin file_systems[p]
       /\ outcome.value = <<p>>

\* C14, the list: a probed file system node that holds C:\WINNT and not
\* C:\Windows is in the list GetBasePathSpecs returns, and one that holds
\* none of the known directories is not.
C14_Accepted ==
  pc = "done" /\ outcome.kind = "return" =>
    \A i \in DOMAIN probes :
      LET held == file_systems[probes[i].path_spec]
      IN  /\ ("C:\\WINNT" \in held /\ "C:\\Windows" \notin held) =>
               \E j \in DOMAIN outcome.value :
                 outcome.value[j] = probes[i].path_spec
          /\ held = {} =>
               \A j \in DOMAIN outcome.value :
                 outcome.value[j] # probes[i].path_spec

\* C14 as stated: with the Windows volume scanner, a file system that holds
\* C:\WINNT and not C:\Windows is accepted as a base path and, when
\* ScanForWindowsVolume returns True, SystemRoot and WinDir are C:\WINNT,
\* whichever of C:\WTSRV and C:\WINNT35 the file system holds too; a file
\* system node that holds none of the known directories gives no base path
\* spec.
C14_WINNTBound ==
  /\ []C14_Accepted
  /\ [][(ScanForWindowsVolumeEnds /\ WINNTSource
            /\ windows_volume' = Result("return", "True"))
          => /\ path_resolver'.SystemRoot = "C:\\WINNT"
             /\ path_resolver'.WinDir = "C:\\WINNT"]_vars

\* C14, what the code does: the variables are set to the directory of the file
\* system that comes first in the order the set of known directories
\* iterates in.
C14_FirstInIterationOrder ==
  [][(ScanForWindowsVolumeEnds /\ WINNTSource)
       => \A p \in DOMAIN file_systems :
            LET first == CHOOSE i \in DOMAIN windows_directories :
                           /\ windows_directories[i] \in file_systems[p]
                           /\ \A j \in DOMAIN windows_directories :
                                windows_directories[j] \in file_systems[p]
                                => i <= j
            IN  /\ windows_volume' = Result("return", "True")
                /\ path_resolver'.SystemRoot = windows_directories[first]
                /\ path_resolver'.WinDir = windows_directories[first]]_vars

\* C15 as stated: in every state of a Windows volume scanner reached by
\* ScanForWindowsVolume and OpenFile calls, before any scan and after a scan
\* that returned False too, OpenFile returns a file object or None and raises
\* nothing.
C15_OpenFileReturns ==
  opened_file.kind \in {"none", "return"}

\* C15, what the code does: OpenFile returns a file object or None once a
\* ScanForWindowsVolume call has set the path resolver; before that it raises
\* AttributeError.
C15_OpenFileOncePathResolverSet ==
  opened_file.kind # "none" =>
    IF path_resolver = NoPathResolver
    THEN opened_file = Result("AttributeError", "")
    ELSE opened_file \in {Result("return", "None"), Result("return", "FileIO")}

\* C15: OpenFile raised after a ScanForWindowsVolume call that returned False.
C15_WitnessAfterFalse ==
  /\ windows_volume = Result("return", "False")
  /\ opened_file.kind = "AttributeError"

\* C15: OpenFile returned a file object after a scan that returned True.
C15_WitnessOpened ==
  /\ windows_volume = Result("return", "True")
  /\ opened_file = Result("return", "FileIO")

\* The probe found a known Windows directory in the file system at path_spec.
ProbeFound(path_spec) ==
  \E i \in DOMAIN probes :
    /\ probes[i].path_spec = path_spec
    /\ probes[i].found \in WINDOWS_DIRECTORIES
    /\ probes[i].found \in file_systems[path_spec]

\* The file system path spec _ScanVolume makes up for a VSS store.
IsSynthesized(path_spec) ==
  /\ Len(path_spec) > 1
  /\ path_spec[Len(path_spec)] = Layer("TSK", <<"/">>)
  /\ path_spec[Len(path_spec) - 1].type_indicator = "VSHADOW"
  /\ path_spec \notin DOMAIN scan_context.nodes

\* C16 as stated: with the Windows volume scanner and a storage media source,
\* every path spec of the list GetBasePathSpecs returns is that of a file
\* system in which the probe found a known Windows directory, the file
\* systems made up for VSS stores included.
C16_EveryBasePathSpecProbed ==
  /\ scanner = "WindowsVolumeScanner"
  /\ pc = "done"
  /\ outcome.kind = "return"
  /\ IsStorageMedia(source_type)
  => \A i \in DOMAIN outcome.value : ProbeFound(outcome.value[i])

\* C16, what the code does: a path spec of the list is that of a file system
\* node in which the probe found a known directory, or the file system made
\* up for a VSS store, which was not probed at all; and a probe that found
\* nothing appended nothing.
C16_ProbedUnlessSynthesized ==
  /\ scanner = "WindowsVolumeScanner"
  /\ pc = "done"
  /\ outcome.kind = "return"
  /\ IsStorageMedia(source_type)
  => /\ \A i \in DOMAIN outcome.value :
          IF IsSynthesized(outcome.value[i])
          THEN \A j \in DOMAIN probes :
                 probes[j].path_spec # outcome.value[i]
          ELSE ProbeFound(outcome.value[i])
     /\ \A j \in DOMAIN probes :
          probes[j].found = "" =>
            \A i \in DOMAIN outcome.value :
              outcome.value[i] # probes[j].path_spec

\* C16: the list returned holds the file system made up for a VSS store that
\* holds no known directory, and the file system node beside it was probed
\* and left out.
C16_WitnessSynthesized ==
  /\ scanner = "WindowsVolumeScanner"
  /\ pc = "done"
  /\ outcome.kind = "return"
  /\ Len(outcome.value) = 1
  /\ IsSynthesized(outcome.value[1])
  /\ file_systems[outcome.value[1]] = {}
  /\ \E j \in DOMAIN probes : probes[j].found = ""

\* A node the walk has a rule for: a partition table or partition, a volume
\* system root, a file system, or a locked node.
IsClassifiable(path_spec) ==
  \/ TypeIndicator(path_spec) = "TSK_PARTITION"
  \/ IsVolumeSystemRoot(path_spec)
  \/ IsFileSystem(path_spec)
  \/ IsLockedScanNode(scan_context, path_spec)

\* The nodes above a node, from the root down.
Ancestors(path_spec) ==
  {SubSeq(path_spec, 1, k) : k \in 1..(Len(path_spec) - 1)}

\* The first Scan of a storage media source has been run, and no other yet:
\* the scan tree is the one GetBasePathSpecs descended.
Descended ==
  /\ scanner = "VolumeScanner"
  /\ IsStorageMedia(source_type)
  /\ scans = <<[scan_path_spec |-> <<>>, result |-> "none"]>>

\* C17 as stated: for a storage media source, the node GetBasePathSpecs
\* starts to resolve at is the first node of the chain of single sub nodes
\* from the root that has a number of sub nodes other than one or is
\* classifiable: no node above it is classifiable.
C17_DescentStopsAtClassifiable ==
  Descended =>
    /\ \A q \in Ancestors(scan_node) :
         /\ Len(scan_context.nodes[q]) = 1
         /\ ~IsClassifiable(q)
    /\ \/ Len(scan_context.nodes[scan_node]) # 1
       \/ IsClassifiable(scan_node)

\* C17, what the code does: the node is the first of the chain that has a
\* number of sub nodes other than one, whatever the nodes above it are.
C17_DescentStopsAtBranching ==
  Descended =>
    /\ \A q \in Ancestors(scan_node) : Len(scan_context.nodes[q]) = 1
    /\ Len(scan_context.nodes[scan_node]) # 1

\* C17: the descent went through a partition table of one partition and
\* stopped at the partition, which holds two nodes; the call ended with
\* ScannerError.
C17_WitnessThroughPartitionTable ==
  /\ Descended
  /\ outcome.kind = "ScannerError"
  /\ TypeIndicator(scan_node) = "TSK_PARTITION"
  /\ ~IsVolumeSystemRoot(scan_node)
  /\ Len(scan_context.nodes[scan_node]) = 2
  /\ \E q \in Ancestors(scan_node) : IsVolumeSystemRoot(q)

\* The number of layers two different path specs share from the source on.
SharedLayers(x, y) ==
  CHOOSE k \in 0..Len(x) :
    /\ k < Len(x) /\ k < Len(y)
    /\ SubSeq(x, 1, k) = SubSeq(y, 1, k)
    /\ x[k + 1] # y[k + 1]

ChildPosition(parent, child) ==
  CHOOSE i \in 1..Len(scan_context.nodes[parent]) :
    scan_context.nodes[parent][i] = child

\* x comes before y in discovery order, depth first and the sub nodes of a
\* node in the order the scan found them, but the stores of a VSS volume
\* system the most recent first.
InDiscoveryOrder(x, y) ==
  LET k == SharedLayers(x, y)
      parent == SubSeq(x, 1, k)
      a == ChildPosition(parent, SubSeq(x, 1, k + 1))
      b == ChildPosition(parent, SubSeq(y, 1, k + 1))
  IN  IF TypeIndicator(parent) = "VSHADOW" /\ IsVolumeSystemRoot(parent)
      THEN a > b ELSE a < b

\* x comes before y in the order the walk processes them in: the sub nodes of
\* a node put to the mediator in the order of the identifiers looped over, the
\* sub nodes of any other node in the order the scan found them.
InProcessingOrder(x, y) ==
  LET k == SharedLayers(x, y)
      parent == SubSeq(x, 1, k)
      a == SubSeq(x, 1, k + 1)
      b == SubSeq(y, 1, k + 1)
      selected == {c \in DOMAIN mediator_calls :
                     /\ mediator_calls[c].node = parent
                     /\ mediator_calls[c].answer = "list"}
  IN  IF selected = {}
      THEN ChildPosition(parent, a) < ChildPosition(parent, b)
      ELSE \A c \in selected :
             PositionIn(mediator_calls[c].processed, Tail(Location(a)))
               < PositionIn(mediator_calls[c].processed, Tail(Location(b)))

\* C18 as stated: the list GetBasePathSpecs returns is in discovery order of
\* the scan tree, the stores of a VSS volume system the most recent first,
\* whatever selection the mediator returned for partitions and APFS volumes.
C18_DiscoveryOrder ==
  /\ scanner = "VolumeScanner"
  /\ outcome.kind = "return"
  => \A i, j \in DOMAIN outcome.value :
       i < j => InDiscoveryOrder(outcome.value[i], outcome.value[j])

\* C18, what the code does: the list is in the order of the walk, which
\* takes the partitions, volumes and stores in the order of the mediator's
\* selection (the stores in its reverse).
C18_ProcessingOrder ==
  /\ scanner = "VolumeScanner"
  /\ outcome.kind = "return"
  => \A i, j \in DOMAIN outcome.value :
       i < j => InProcessingOrder(outcome.value[i], outcome.value[j])

\* C18: the mediator selected partition 2 before partition 1, and the list
\* returned holds the file system of partition 2 before that of partition 1.
C18_WitnessPartitions ==
  /\ outcome.kind = "return"
  /\ Len(outcome.value) = 2
  /\ \E c \in CallsOf("GetPartitionIdentifiers") :
       mediator_calls[c].processed = <<PartitionIdentifier(2), PartitionIdentifier(1)>>
  /\ ~InDiscoveryOrder(outcome.value[1], outcome.value[2])

\* The node the innermost pending call of the walk is about to scan.
NextScanNode ==
  IF Head(stack).op = "volume" THEN Head(stack).node
  ELSE GetSubNodeByLocation(scan_context, Head(stack).node,
                            <<"/">> \o Head(stack).identifier)

\* The walk is about to scan a locked node.
ReachesLockedNode ==
  /\ scanner = "VolumeScanner"
  /\ pc = "walk"
  /\ stack # <<>>
  /\ NextScanNode # <<>>
  /\ IsLockedScanNode(scan_context, NextScanNode)

\* C19: when the walk reaches a locked node, the call ends with ScannerError
\* if no credentials are defined for the node's path spec or if no mediator
\* is configured; in both cases UnlockEncryptedVolume is not invoked and no
\* Scan is run; with neither credentials nor mediator the error is the one of
\* the missing credentials, the check made first. Otherwise the mediator is
\* asked to unlock the node.
C19_LockedNodeChecks ==
  [][ReachesLockedNode =>
       IF ~HasCredentials(NextScanNode)
       THEN /\ pc' = "done"
            /\ outcome' = Raised("ScannerError",
                                 "Missing credentials for scan node", <<>>)
            /\ mediator_calls' = mediator_calls
            /\ scans' = scans
            /\ scan_context' = scan_context
       ELSE IF ~mediator
       THEN /\ pc' = "done"
            /\ outcome' = Raised("ScannerError",
                                 "Encrypted volume found but no mediator", <<>>)
            /\ mediator_calls' = mediator_calls
            /\ scans' = scans
            /\ scan_context' = scan_context
       ELSE /\ pc' = "unlock"
            /\ Len(mediator_calls') = Len(mediator_calls) + 1
            /\ mediator_calls'[Len(mediator_calls')].op = "UnlockEncryptedVolume"
            /\ mediator_calls'[Len(mediator_calls')].node = NextScanNode]_vars

\* C19: a locked node without credentials was reached by a scanner without
\* mediator, and the call ended with the error of the missing credentials.
C19_Witness ==
  /\ ~mediator
  /\ outcome = Raised("ScannerError", "Missing credentials for scan node", <<>>)
  /\ stack # <<>>
  /\ IsLockedScanNode(scan_context, Head(stack).node)
  /\ CallsOf("UnlockEncryptedVolume") = {}
  /\ Len(scans) = 1

\* C19: a locked node with credentials and no mediator.
C19_WitnessNoMediator ==
  /\ ~mediator
  /\ outcome = Raised("ScannerError", "Encrypted volume found but no mediator",
                      <<>>)
  /\ Len(scans) = 1

\* C19: a locked node without credentials and a mediator, which is not asked.
C19_WitnessNoCredentials ==
  /\ mediator
  /\ outcome = Raised("ScannerError", "Missing credentials for scan node", <<>>)
  /\ mediator_calls = <<>>

\* The walk is about to scan a volume system root that is not locked.
ReachesVolumeSystemRoot ==
  /\ pc = "walk"
  /\ stack # <<>>
  /\ NextScanNode # <<>>
  /\ ~IsLockedScanNode(scan_context, NextScanNode)
  /\ IsVolumeSystemRoot(NextScanNode)

\* C20: during the walk the volume system of a volume system root is opened,
\* for its identifiers to be selected, only if the root is an APFS container
\* or a VSS volume; a volume system root of another type ends GetBasePathSpecs
\* with ScannerError: no volume system is opened, no mediator operation is
\* invoked, and no list is returned, whatever was accumulated.
C20_UnsupportedVolumeSystemRoot ==
  [][ReachesVolumeSystemRoot =>
       IF TypeIndicator(NextScanNode) \in {"APFS_CONTAINER", "VSHADOW"}
       THEN /\ Len(volume_systems') = Len(volume_systems) + 1
            /\ volume_systems'[Len(volume_systems')].node = NextScanNode
            /\ volume_systems'[Len(volume_systems')].type =
                 TypeIndicator(NextScanNode)
       ELSE /\ pc' = "done"
            /\ outcome' = Raised("ScannerError",
                                 "Unsupported volume system type", <<>>)
            /\ volume_systems' = volume_systems
            /\ mediator_calls' = mediator_calls]_vars

\* C20: a partition table nested in the second partition selected ended the
\* call, after the file system of the first had been accumulated.
C20_Witness ==
  /\ pc = "done"
  /\ outcome = Raised("ScannerError", "Unsupported volume system type", <<>>)
  /\ base_path_specs # <<>>
  /\ stack # <<>>
  /\ Head(stack).op = "volume"
  /\ TypeIndicator(Head(stack).node) = "TSK_PARTITION"
  /\ IsVolumeSystemRoot(Head(stack).node)

\* C20: an LVM volume system root right beneath the source.
C20_WitnessLVM ==
  /\ pc = "done"
  /\ outcome = Raised("ScannerError", "Unsupported volume system type", <<>>)
  /\ stack # <<>>
  /\ TypeIndicator(Head(stack).node) = "LVM"

\* The step in which ScanForWindowsVolume returns True.
ScanForWindowsVolumeTrue ==
  ScanForWindowsVolumeEnds /\ windows_volume' = Result("return", "True")

\* The probes of the walk that found a known directory.
ProbesFound == {i \in DOMAIN probes : probes[i].found # ""}

\* The first call on a scanner has returned a list of file systems that the
\* walk, if there was one, has all probed: none is made up for a VSS store.
FirstCallAllProbed ==
  /\ calls = 1
  /\ \A i \in DOMAIN outcome.value : ~IsSynthesized(outcome.value[i])

\* C21 as stated: whenever ScanForWindowsVolume returns True, SystemRoot and
\* WinDir are set to a known Windows directory that exists in the file system
\* the scanner opened and keeps for OpenFile, that of the first base path
\* spec, also when the source holds several accepted file systems with
\* different Windows directories. It is stated for the first call on a
\* scanner and a list of probed file systems: nothing is left of an earlier
\* call, and each file system of the list holds a known directory.
C21_BoundDirectoryInOpenedFileSystem ==
  [][(ScanForWindowsVolumeTrue /\ FirstCallAllProbed)
       => /\ file_system' = outcome.value[1]
          /\ path_resolver'.file_system = file_system'
          /\ path_resolver'.SystemRoot \in WINDOWS_DIRECTORIES
          /\ path_resolver'.WinDir = path_resolver'.SystemRoot
          /\ ResolvePath(file_system', path_resolver'.SystemRoot)]_vars

\* C21, what the code does: the file system kept is that of the first base
\* path spec, and the variables are set to a known directory; in the first
\* call on a scanner it is the directory the last probe of the walk that
\* found one has found, in whichever file system, and the first base path
\* spec is probed only when no probe of the walk found any.
C21_BoundDirectoryOfLastProbe ==
  [][ScanForWindowsVolumeTrue
       => /\ file_system' = outcome.value[1]
          /\ path_resolver'.file_system = file_system'
          /\ path_resolver'.SystemRoot \in WINDOWS_DIRECTORIES
          /\ path_resolver'.WinDir = path_resolver'.SystemRoot
          /\ calls = 1 =>
               IF ProbesFound = {}
               THEN ResolvePath(file_system', path_resolver'.SystemRoot)
               ELSE path_resolver'.SystemRoot =
                      probes[CHOOSE i \in ProbesFound :
                               \A j \in ProbesFound : j <= i].found]_vars

\* C21: the first call on a scanner returned a list of two file system
\* nodes, both probed, that hold different known directories.
C21_WitnessTwoFileSystems ==
  /\ scanner = "WindowsVolumeScanner"
  /\ calls = 1
  /\ pc = "done"
  /\ outcome.kind = "return"
  /\ Len(outcome.value) = 2
  /\ \A i \in 1..2 : ProbeFound(outcome.value[i])
  /\ file_systems[outcome.value[1]] = {"C:\\Windows"}
  /\ file_systems[outcome.value[2]] = {"C:\\WINNT"}

\* The known directory the call that is ending has found in the source it
\* scanned: that of the last probe of its walk that found one, else that of
\* the probe of the first base path spec; "" when there is none.
FoundInCall ==
  IF ProbesFound # {}
  THEN probes[CHOOSE i \in ProbesFound : \A j \in ProbesFound : j <= i].found
  ELSE ScanFileSystemForWindowsDirectory(outcome.value[1])

\* C22 as stated: in any sequence of ScanForWindowsVolume calls on one
\* scanner, a call returns True only if a known Windows directory was found
\* in the source that call scanned, and the directory it binds is the one
\* found there: neither depends on what earlier calls left behind.
C22_IndependentOfEarlierCalls ==
  [][ScanForWindowsVolumeTrue
       => /\ FoundInCall \in WINDOWS_DIRECTORIES
          /\ path_resolver'.SystemRoot = FoundInCall
          /\ path_resolver'.WinDir = FoundInCall]_vars

\* C22, what the code does: the first call on a scanner binds what it found;
\* a later call binds the directory the attribute holds, the one an earlier
\* call found when its own walk found none, and probes the first base path
\* spec only when the attribute is not set.
C22_WindowsDirectoryKept ==
  [][ScanForWindowsVolumeTrue
       => /\ calls = 1 => path_resolver'.SystemRoot = FoundInCall
          /\ path_resolver'.SystemRoot =
               (IF windows_directory # "" THEN windows_directory
                ELSE FoundInCall)
          /\ windows_directory' = path_resolver'.SystemRoot]_vars

\* C22: the GetBasePathSpecs call of a second ScanForWindowsVolume call has
\* returned the path spec of a directory that holds no known directory,
\* while the attribute holds the directory an earlier call found.
C22_WitnessSecondCall ==
  /\ scanner = "WindowsVolumeScanner"
  /\ calls = 2
  /\ pc = "done"
  /\ outcome.kind = "return"
  /\ source_type = "directory"
  /\ Len(outcome.value) = 1
  /\ file_systems[outcome.value[1]] = {}
  /\ windows_directory \in WINDOWS_DIRECTORIES

\* The selection operations the mediator answered with None.
NoneSelections ==
  {i \in DOMAIN mediator_calls : mediator_calls[i].answer = "None"}

\* GetBasePathSpecs has ended and the mediator was asked for selections
\* only: no volume was to be unlocked.
EndedAfterSelectionsOnly ==
  /\ scanner = "VolumeScanner"
  /\ pc = "done"
  /\ CallsOf("UnlockEncryptedVolume") = {}

\* C23 as stated: whatever the selection operations of the mediator return,
\* a list of identifiers or None, GetBasePathSpecs ends by returning a list
\* or with ScannerError or UserAbort; None never makes the call fail with
\* another kind of error.
C23_SelectionEndsInListOrScanError ==
  EndedAfterSelectionsOnly =>
    outcome.kind \in {"return", "ScannerError", "UserAbort"}

\* C23, what the code does: a selection operation that returns None ends the
\* call with TypeError, for each of the three operations, and nothing else
\* than None does.
C23_NoneSelectionTypeError ==
  /\ [](EndedAfterSelectionsOnly =>
          IF NoneSelections # {}
          THEN /\ outcome = Raised("TypeError", "object is not iterable", <<>>)
               /\ NoneSelections = {Len(mediator_calls)}
          ELSE outcome.kind \in {"return", "ScannerError", "UserAbort"})
  /\ [][(pc = "select" /\ pc' # "select"
            /\ mediator_calls'[Len(mediator_calls')].answer = "None")
          => /\ pc' = "done"
             /\ outcome'.kind = "TypeError"]_vars

\* C23: GetPartitionIdentifiers returned None for a partition table of
\* several partitions.
C23_WitnessPartitions ==
  /\ EndedAfterSelectionsOnly
  /\ NoneSelections # {}
  /\ mediator_calls[Len(mediator_calls)].op = "GetPartitionIdentifiers"
  /\ Len(mediator_calls[Len(mediator_calls)].candidates) >= 2

\* C23: GetVSSStoreIdentifiers returned None during the walk, after file
\* systems had been accumulated.
C23_WitnessVSS ==
  /\ EndedAfterSelectionsOnly
  /\ NoneSelections # {}
  /\ mediator_calls[Len(mediator_calls)].op = "GetVSSStoreIdentifiers"

=============================================================================
